---- MODULE Spec2Model ----
(***************************************************************************)
(* A model of the ABP flat-file transformation                             *)
(* (ukam_os_builder/data_sources/abp/to_flatfile.py and its transform      *)
(* package).                                                               *)
(*                                                                         *)
(* SQL values are nullable: NULL is the empty tuple and a non-NULL value v *)
(* is the one-element tuple <<v>>.  VARCHAR values are sequences of        *)
(* one-character strings, so that TRIM, REPLACE, REGEXP_REPLACE, concat    *)
(* and concat_ws are modelled by what they do to the characters.           *)
(* Relations are sets of records; every ROW_NUMBER() ... rn = 1 and every  *)
(* ORDER BY ... LIMIT 1 keeps one row per partition, and when several rows *)
(* tie on the whole ordering key any of them may be the one kept.          *)
(***************************************************************************)
EXTENDS Integers, Sequences, FiniteSets, TLC

----------------------------------------------------------------------------
(* SQL values *)

Null == <<>>

Some(v) == <<v>>

IsNull(x) == x = Null

Val(x) == x[1]

\* a = b in a WHERE or ON clause: true only when both sides are non-NULL
SqlEq(a, b) == a # Null /\ b # Null /\ a = b

COALESCE(x, d) == IF IsNull(x) THEN d ELSE x

\* NULLIF(x, '')
NullIfEmpty(x) == IF x = Some(<<>>) THEN Null ELSE x

----------------------------------------------------------------------------
(* Characters and strings *)

\* the characters of the model in their byte order (the order DuckDB's
\* default binary collation compares VARCHAR values by)
Alphabet ==
    << "\t", " ", "'", ",", "-",
       "0", "1", "2", "3", "4", "5", "6", "7", "8", "9",
       "A", "B", "C", "D", "E", "F", "G", "H", "I", "J", "K", "L", "M",
       "N", "O", "P", "Q", "R", "S", "T", "U", "V", "W", "X", "Y", "Z", "_" >>

Ord(c) == CHOOSE i \in 1..Len(Alphabet) : Alphabet[i] = c

\* the class \s of the regular expression
IsSpace(c) == c \in {" ", "\t"}

RECURSIVE StrLess(_, _)
StrLess(a, b) ==
    IF b = <<>> THEN FALSE
    ELSE IF a = <<>> THEN TRUE
    ELSE IF Head(a) # Head(b) THEN Ord(Head(a)) < Ord(Head(b))
    ELSE StrLess(Tail(a), Tail(b))

\* a < b on nullable VARCHAR in an ascending ORDER BY (NULLS LAST)
NStrLess(a, b) ==
    IF IsNull(a) THEN FALSE
    ELSE IF IsNull(b) THEN TRUE
    ELSE StrLess(Val(a), Val(b))

RECURSIVE LStrip(_)
LStrip(s) == IF s # <<>> /\ Head(s) = " " THEN LStrip(Tail(s)) ELSE s

RECURSIVE RStrip(_)
RStrip(s) ==
    IF s # <<>> /\ s[Len(s)] = " " THEN RStrip(SubSeq(s, 1, Len(s) - 1)) ELSE s

\* TRIM(x): strips the spaces at both ends; NULL stays NULL
TRIM(x) == IF IsNull(x) THEN Null ELSE Some(RStrip(LStrip(Val(x))))

RECURSIVE JoinStr(_, _)
JoinStr(parts, sep) ==
    IF parts = <<>> THEN <<>>
    ELSE IF Len(parts) = 1 THEN parts[1]
    ELSE parts[1] \o sep \o JoinStr(Tail(parts), sep)

RECURSIVE DropNulls(_)
DropNulls(args) ==
    IF args = <<>> THEN <<>>
    ELSE IF IsNull(Head(args)) THEN DropNulls(Tail(args))
    ELSE <<Val(Head(args))>> \o DropNulls(Tail(args))

\* concat_ws(' ', a1, ..., an): the non-NULL arguments joined by one space
\* (an empty string is an argument like any other)
ConcatWs(args) == Some(JoinStr(DropNulls(args), <<" ">>))

\* concat(a1, ..., an): NULL arguments count as ''
Concat(args) == Some(JoinStr(DropNulls(args), <<>>))

\* REPLACE(x, CHR(39), '')
StripQuotes(x) ==
    IF IsNull(x) THEN Null
    ELSE Some(SelectSeq(Val(x), LAMBDA c : c # "'"))

RECURSIVE SkipSpaces(_)
SkipSpaces(s) == IF s # <<>> /\ IsSpace(Head(s)) THEN SkipSpaces(Tail(s)) ELSE s

RECURSIVE ReplaceFirstRun(_)
ReplaceFirstRun(s) ==
    IF s = <<>> THEN <<>>
    ELSE IF IsSpace(Head(s)) THEN <<" ">> \o SkipSpaces(s)
    ELSE <<Head(s)>> \o ReplaceFirstRun(Tail(s))

\* REGEXP_REPLACE(x, '\s+', ' ') with no options argument: DuckDB replaces
\* the first match only (the 'g' option is what makes it global)
RegexpReplaceWs(x) == IF IsNull(x) THEN Null ELSE Some(ReplaceFirstRun(Val(x)))

Digits == << "0", "1", "2", "3", "4", "5", "6", "7", "8", "9" >>

RECURSIVE NatStr(_)
NatStr(n) ==
    IF n < 10 THEN << Digits[n + 1] >> ELSE NatStr(n \div 10) \o << Digits[(n % 10) + 1] >>

\* CAST(n AS VARCHAR) of a nullable integer
IntStr(x) ==
    IF IsNull(x) THEN Null
    ELSE IF Val(x) < 0 THEN Some(<<"-">> \o NatStr(0 - Val(x)))
    ELSE Some(NatStr(Val(x)))

----------------------------------------------------------------------------
(* Relational helpers *)

RECURSIVE Choices(_)
\* the tables holding exactly one row of every set of M
Choices(M) ==
    IF M = {} THEN {{}}
    ELSE LET m == CHOOSE x \in M : TRUE
         IN  { t \cup {r} : t \in Choices(M \ {m}), r \in m }

RECURSIVE LexLess(_, _)
\* the lexicographic order on integer tuples of one length
LexLess(a, b) ==
    IF a = <<>> THEN FALSE
    ELSE IF Head(a) # Head(b) THEN Head(a) < Head(b)
    ELSE LexLess(Tail(a), Tail(b))

\* ROW_NUMBER() OVER (PARTITION BY KeyOf ORDER BY Better) ... WHERE rn = 1:
\* per partition, the rows no other row of the partition sorts before
FirstRows(rows, KeyOf(_), Better(_, _)) ==
    { { r \in rows : KeyOf(r) = k /\ \A r2 \in rows : KeyOf(r2) = k => ~Better(r2, r) }
      : k \in { KeyOf(r) : r \in rows } }

\* ... and the tables the query can return: one first row per partition
RowNumberFirst(rows, KeyOf(_), Better(_, _)) == Choices(FirstRows(rows, KeyOf, Better))

\* a LEFT JOIN's right side: the matching rows, or one all-NULL row
LeftMatches(matches, nullRow) == IF matches = {} THEN {nullRow} ELSE matches

----------------------------------------------------------------------------
(* Dates are day numbers; the two sentinels of the COALESCEs *)

\* DATE '9999-12-31'
FarFuture == 9999

\* DATE '0001-01-01'
Epoch == 1

\* ORDER BY COALESCE(end_date, DATE '9999-12-31') DESC,
\*          COALESCE(last_update_date, DATE '0001-01-01') DESC
RecencyKey(r) ==
    << 0 - Val(COALESCE(r.end_date, Some(FarFuture))),
       0 - Val(COALESCE(r.last_update_date, Some(Epoch))) >>

----------------------------------------------------------------------------
(* The macros of _create_macros *)

\* a component that renders the start of a range and forgets its end
build_componentNoRange(comp_text, comp_start_number, comp_start_suffix, comp_end_number, comp_end_suffix) ==
    TRIM(ConcatWs(<<
        NullIfEmpty(comp_text),
        IF comp_start_number # Null
            THEN Concat(<< IntStr(comp_start_number), COALESCE(comp_start_suffix, Some(<<>>)) >>)
            ELSE Null >>))

build_component(comp_text, comp_start_number, comp_start_suffix, comp_end_number, comp_end_suffix) ==
    TRIM(ConcatWs(<<
        NullIfEmpty(comp_text),
        IF comp_start_number # Null /\ comp_end_number = Null
            THEN Concat(<< IntStr(comp_start_number), COALESCE(comp_start_suffix, Some(<<>>)) >>)
            ELSE Null,
        IF comp_start_number # Null /\ comp_end_number # Null
            THEN Concat(<< IntStr(comp_start_number), COALESCE(comp_start_suffix, Some(<<>>)),
                           Some(<<"-">>),
                           IntStr(comp_end_number), COALESCE(comp_end_suffix, Some(<<>>)) >>)
            ELSE Null >>))

\* l is the LPI row, the last three arguments the resolved street fields
build_base_address(l, street_description, locality_name, town_name) ==
    TRIM(ConcatWs(<<
        NullIfEmpty(TRIM(ConcatWs(<<
            build_component(l.sao_text, l.sao_start_number, l.sao_start_suffix,
                            l.sao_end_number, l.sao_end_suffix),
            build_component(l.pao_text, l.pao_start_number, l.pao_start_suffix,
                            l.pao_end_number, l.pao_end_suffix) >>))),
        NullIfEmpty(street_description),
        NullIfEmpty(locality_name),
        NullIfEmpty(town_name) >>))

----------------------------------------------------------------------------
(* _prepare_street_descriptor_views *)

SdByLangKey(sd) == << sd.usrn, sd.language >>

SdAnyKey(sd) == << sd.usrn >>

SdBetter(a, b) == LexLess(RecencyKey(a), RecencyKey(b))

\* the tables the view _sd_best_by_lang can evaluate to
SdBestByLang(street_descriptor) == RowNumberFirst(street_descriptor, SdByLangKey, SdBetter)

\* the tables the view _sd_best_any can evaluate to
SdBestAny(street_descriptor) == RowNumberFirst(street_descriptor, SdAnyKey, SdBetter)

NullSd ==
    [ usrn |-> Null, language |-> Null, street_description |-> Null, locality |-> Null,
      town_name |-> Null, end_date |-> Null, last_update_date |-> Null ]

----------------------------------------------------------------------------
(* _prepare_lpi_base *)

AllowedStatuses == { 1, 3, 6, 8 }

StatusRank(logical_status) ==
    IF logical_status = Some(1) THEN 0
    ELSE IF logical_status = Some(3) THEN 1
    ELSE IF logical_status = Some(6) THEN 2
    ELSE IF logical_status = Some(8) THEN 3
    ELSE 9

\* a derivation that looks for children before it looks for a parent
HierarchyLevelParentFirst(l, b, blpu) ==
    IF \E b2 \in blpu : SqlEq(b2.parent_uprn, l.uprn) THEN Some("P")
    ELSE IF b.parent_uprn # Null THEN Some("C")
    ELSE Some("S")

HierarchyLevel(l, b, blpu) ==
    IF b.parent_uprn # Null THEN Some("C")
    ELSE IF \E b2 \in blpu : SqlEq(b2.parent_uprn, l.uprn) THEN Some("P")
    ELSE Some("S")

\* a filter that lets every status that is set through
BaseFilterAnyStatus(l, b) ==
    /\ (IsNull(b.addressbase_postal) \/ b.addressbase_postal # Some("N"))
    /\ l.logical_status # Null

\* WHERE (b.addressbase_postal != 'N' OR b.addressbase_postal IS NULL)
\*   AND l.logical_status IN (1, 3, 6, 8)
BaseFilter(l, b) ==
    /\ (IsNull(b.addressbase_postal) \/ b.addressbase_postal # Some("N"))
    /\ l.logical_status # Null
    /\ Val(l.logical_status) \in AllowedStatuses

LpiBaseFullRow(l, b, sd_lang, sd_any, blpu) ==
    LET street   == COALESCE(sd_lang.street_description, sd_any.street_description)
        locality == COALESCE(sd_lang.locality, sd_any.locality)
        town     == COALESCE(sd_lang.town_name, sd_any.town_name)
    IN  [ uprn |-> l.uprn,
          lpi_key |-> l.lpi_key,
          language |-> l.language,
          logical_status |-> l.logical_status,
          official_flag |-> l.official_flag,
          start_date |-> l.start_date,
          end_date |-> l.end_date,
          last_update_date |-> l.last_update_date,
          postcode |-> b.postcode_locator,
          blpu_state |-> b.blpu_state,
          postal_address_code |-> b.addressbase_postal,
          parent_uprn |-> b.parent_uprn,
          hierarchy_level |-> HierarchyLevel(l, b, blpu),
          level |-> l.level,
          street_description |-> street,
          locality_name |-> locality,
          town_name |-> town,
          base_address |-> build_base_address(l, street, locality, town),
          status_rank |-> StatusRank(l.logical_status) ]

SdLangMatches(l, sd_best_by_lang) ==
    LeftMatches({ s \in sd_best_by_lang :
                    SqlEq(s.usrn, l.usrn) /\ SqlEq(s.language, l.language) }, NullSd)

SdAnyMatches(l, sd_best_any) ==
    LeftMatches({ s \in sd_best_any : SqlEq(s.usrn, l.usrn) }, NullSd)

\* lpi_base_full, given what the two street views evaluated to
LpiBaseFull(lpi, blpu, sd_best_by_lang, sd_best_any) ==
    UNION { { LpiBaseFullRow(lb[1], lb[2], sl, sa, blpu) :
                sl \in SdLangMatches(lb[1], sd_best_by_lang),
                sa \in SdAnyMatches(lb[1], sd_best_any) } :
            lb \in { x \in lpi \X blpu :
                        SqlEq(x[2].uprn, x[1].uprn) /\ BaseFilter(x[1], x[2]) } }

DistinctColumns(f) ==
    [ uprn |-> f.uprn,
      base_address |-> f.base_address,
      postcode |-> f.postcode,
      logical_status |-> f.logical_status,
      official_flag |-> f.official_flag,
      blpu_state |-> f.blpu_state,
      postal_address_code |-> f.postal_address_code,
      parent_uprn |-> f.parent_uprn,
      hierarchy_level |-> f.hierarchy_level,
      start_date |-> f.start_date,
      end_date |-> f.end_date,
      last_update_date |-> f.last_update_date,
      status_rank |-> f.status_rank ]

NonEmpty(x) == x # Null /\ x # Some(<<>>)

\* lpi_base_distinct
LpiBaseDistinct(lpi_base_full) ==
    { DistinctColumns(f) : f \in { g \in lpi_base_full : NonEmpty(g.base_address) } }

CurrentStatuses == { 1, 3, 6 }

BestCurrentKey(d) == << d.uprn >>

\* a current-best selection by the date of last update alone
BestCurrentBetterByDate(a, b) ==
    Val(COALESCE(a.last_update_date, Some(Epoch))) > Val(COALESCE(b.last_update_date, Some(Epoch)))

\* ORDER BY status_rank, COALESCE(last_update_date, DATE '0001-01-01') DESC
BestCurrentBetter(a, b) ==
    LexLess(<< a.status_rank, 0 - Val(COALESCE(a.last_update_date, Some(Epoch))) >>,
            << b.status_rank, 0 - Val(COALESCE(b.last_update_date, Some(Epoch))) >>)

BestCurrentColumns(d) ==
    [ uprn |-> d.uprn,
      base_address |-> d.base_address,
      postcode |-> d.postcode,
      logical_status |-> d.logical_status,
      official_flag |-> d.official_flag,
      blpu_state |-> d.blpu_state,
      postal_address_code |-> d.postal_address_code,
      parent_uprn |-> d.parent_uprn,
      hierarchy_level |-> d.hierarchy_level,
      status_rank |-> d.status_rank,
      last_update_date |-> d.last_update_date ]

\* the tables lpi_best_current can be created as
LpiBestCurrent(lpi_base_distinct) ==
    { { BestCurrentColumns(d) : d \in t } :
        t \in RowNumberFirst({ d \in lpi_base_distinct :
                                 Val(d.logical_status) \in CurrentStatuses },
                             BestCurrentKey, BestCurrentBetter) }

----------------------------------------------------------------------------
(* _prepare_delivery_point_best and _prepare_classification_best *)

UprnKey(r) == << r.uprn >>

RecencyBetter(a, b) == LexLess(RecencyKey(a), RecencyKey(b))

\* the tables delivery_point_best can be created as
DeliveryPointBest(delivery_point) ==
    { { [ uprn |-> d.uprn, udprn |-> d.udprn ] : d \in t } :
        t \in RowNumberFirst({ d \in delivery_point : d.udprn # Null },
                             UprnKey, RecencyBetter) }

ModernScheme == "AddressBase Premium Classification Scheme"

SchemeRank(c) == IF c.class_scheme = Some(ModernScheme) THEN 0 ELSE 1

\* a resolver that looks at the dates and not at the scheme
ClassificationBetterByRecency(a, b) == LexLess(RecencyKey(a), RecencyKey(b))

ClassificationBetter(a, b) ==
    LexLess(<< SchemeRank(a) >> \o RecencyKey(a), << SchemeRank(b) >> \o RecencyKey(b))

\* the tables classification_best can be created as
ClassificationBest(classification) ==
    { { [ uprn |-> c.uprn, classification_code |-> c.classification_code,
          class_scheme |-> c.class_scheme ] : c \in t } :
        t \in RowNumberFirst(classification, UprnKey, ClassificationBetter) }

----------------------------------------------------------------------------
(* The four generators.  A stage table is a bag: rid tells apart the rows  *)
(* that agree on every column (it is no column of the table).              *)

\* a labelling that has no label for the Provisional status
VariantLabelNoProvisional(logical_status) ==
    IF logical_status = Some(1) THEN Some("APPROVED")
    ELSE IF logical_status = Some(3) THEN Some("ALTERNATIVE")
    ELSE IF logical_status = Some(8) THEN Some("HISTORICAL")
    ELSE Null

VariantLabel(logical_status) ==
    IF logical_status = Some(1) THEN Some("APPROVED")
    ELSE IF logical_status = Some(3) THEN Some("ALTERNATIVE")
    ELSE IF logical_status = Some(6) THEN Some("PROVISIONAL")
    ELSE IF logical_status = Some(8) THEN Some("HISTORICAL")
    ELSE Null

\* a flag that is set for the Alternative status too
IsApprovedOrAlternative(logical_status) == logical_status \in { Some(1), Some(3) }

\* (logical_status = 1) AS is_primary
IsApproved(logical_status) == logical_status = Some(1)

LpiVariant(d) ==
    [ rid |-> << "LPI", d >>,
      uprn |-> d.uprn,
      postcode |-> d.postcode,
      raw_address |-> d.base_address,
      source |-> "LPI",
      logical_status |-> d.logical_status,
      official_flag |-> d.official_flag,
      blpu_state |-> d.blpu_state,
      postal_address_code |-> d.postal_address_code,
      parent_uprn |-> d.parent_uprn,
      hierarchy_level |-> d.hierarchy_level,
      variant_label |-> VariantLabel(d.logical_status),
      is_primary |-> IsApproved(d.logical_status) ]

\* _stage_lpi_variants
RenderLpiVariants(lpi_base_distinct) == { LpiVariant(d) : d \in lpi_base_distinct }

OrganisationClean(o) ==
    [ rid |-> o,
      uprn |-> o.uprn,
      organisation_name |-> TRIM(o.organisation),
      legal_name |-> TRIM(o.legal_name),
      start_date |-> o.start_date,
      end_date |-> o.end_date ]

Candidate(oc, name_source, name_value) ==
    [ rid |-> << "ORGANISATION", << oc.rid, name_source >> >>,
      uprn |-> oc.uprn,
      name_source |-> name_source,
      name_value |-> name_value,
      start_date |-> oc.start_date,
      end_date |-> oc.end_date ]

OrganisationCandidates(organisation) ==
    LET clean == { OrganisationClean(o) : o \in organisation }
    IN  { Candidate(oc, "ORGANISATION", oc.organisation_name) :
            oc \in { c \in clean : NonEmpty(c.organisation_name) } }
        \cup
        { Candidate(oc, "LEGAL_NAME", oc.legal_name) :
            oc \in { c \in clean :
                       /\ NonEmpty(c.legal_name)
                       /\ (IsNull(c.organisation_name)
                           \/ c.organisation_name # c.legal_name) } }

BusinessVariant(oc, lb, current_label, legal_label) ==
    [ rid |-> oc.rid,
      uprn |-> oc.uprn,
      postcode |-> lb.postcode,
      raw_address |-> TRIM(ConcatWs(<< oc.name_value, lb.base_address >>)),
      source |-> "ORGANISATION",
      logical_status |-> lb.logical_status,
      official_flag |-> lb.official_flag,
      blpu_state |-> lb.blpu_state,
      postal_address_code |-> lb.postal_address_code,
      parent_uprn |-> lb.parent_uprn,
      hierarchy_level |-> lb.hierarchy_level,
      variant_label |-> IF oc.name_source = "LEGAL_NAME"
                            THEN Some(legal_label) ELSE Some(current_label),
      is_primary |-> FALSE ]

CurrentVariants(candidates, lpi_best_current) ==
    { BusinessVariant(x[1], x[2], "BUSINESS_CURRENT", "BUSINESS_CURRENT_LEGAL") :
        x \in { y \in candidates \X lpi_best_current :
                  SqlEq(y[2].uprn, y[1].uprn) /\ IsNull(y[1].end_date) } }

\* CASE WHEN (lb.start_date IS NULL OR oc.end_date >= lb.start_date)
\*       AND (lb.end_date IS NULL OR oc.start_date <= lb.end_date) THEN 0 ELSE 1 END
\* (oc.end_date is not NULL here; a NULL comparison makes the WHEN not true)
OverlapRank(oc, lb) ==
    IF /\ (IsNull(lb.start_date) \/ Val(oc.end_date) >= Val(lb.start_date))
       /\ (IsNull(lb.end_date)
           \/ (oc.start_date # Null /\ Val(oc.start_date) <= Val(lb.end_date)))
    THEN 0 ELSE 1

SnapshotKey(oc, lb) ==
    << OverlapRank(oc, lb), lb.status_rank,
       0 - Val(COALESCE(lb.last_update_date, Some(Epoch))) >>

\* the rows the LATERAL ... ORDER BY ... LIMIT 1 can return for oc
BestSnapshots(oc, lpi_base_distinct) ==
    LET mine == { lb \in lpi_base_distinct : SqlEq(lb.uprn, oc.uprn) }
    IN  { lb \in mine :
            \A other \in mine : ~LexLess(SnapshotKey(oc, other), SnapshotKey(oc, lb)) }

\* the tables historical_variants can evaluate to, after the final
\* WHERE raw_address IS NOT NULL AND raw_address <> ''
HistoricalVariants(candidates, lpi_base_distinct) ==
    LET hist == { oc \in candidates : oc.end_date # Null }
        perCandidate ==
            { { BusinessVariant(oc, lb, "BUSINESS_HISTORICAL", "BUSINESS_HISTORICAL_LEGAL") :
                  lb \in BestSnapshots(oc, lpi_base_distinct) } : oc \in hist }
    IN  { { v \in t : NonEmpty(v.raw_address) } : t \in Choices(perCandidate \ {{}}) }

\* the tables _stage_business_variants can be created as
RenderBusinessVariants(organisation, lpi_base_distinct, lpi_best_current) ==
    LET candidates == OrganisationCandidates(organisation)
    IN  { CurrentVariants(candidates, lpi_best_current) \cup h :
            h \in HistoricalVariants(candidates, lpi_base_distinct) }

DeliveryRawAddress(d) ==
    TRIM(ConcatWs(<<
        NullIfEmpty(TRIM(ConcatWs(<<
            d.department_name, d.organisation_name, d.sub_building_name,
            d.building_name, IntStr(d.building_number) >>))),
        NullIfEmpty(d.dependent_thoroughfare),
        NullIfEmpty(d.thoroughfare),
        NullIfEmpty(d.double_dependent_locality),
        NullIfEmpty(d.dependent_locality),
        NullIfEmpty(d.post_town) >>))

DeliveryVariant(d) ==
    [ rid |-> << "DELIVERY_POINT", d >>,
      uprn |-> d.uprn,
      postcode |-> d.postcode,
      raw_address |-> DeliveryRawAddress(d),
      source |-> "DELIVERY_POINT",
      logical_status |-> Null,
      official_flag |-> Null,
      blpu_state |-> Null,
      postal_address_code |-> Null,
      parent_uprn |-> Null,
      hierarchy_level |-> Null,
      variant_label |-> Some("DELIVERY"),
      is_primary |-> FALSE ]

\* _stage_delivery_point_variants
RenderDeliveryPointVariants(delivery_point) ==
    { v \in { DeliveryVariant(d) : d \in { x \in delivery_point : x.postcode # Null } } :
        NonEmpty(v.raw_address) }

RECURSIVE SplitPart1(_)
\* split_part(s, ',', 1): what precedes the first comma
SplitPart1(s) ==
    IF s = <<>> \/ Head(s) = "," THEN <<>> ELSE << Head(s) >> \o SplitPart1(Tail(s))

IsDigit(c) == \E i \in 1..Len(Digits) : Digits[i] = c

AllDigits(s) == s # <<>> /\ \A i \in 1..Len(s) : IsDigit(s[i])

\* s ~ '^-?[0-9]+$'
IsIntegerToken(s) ==
    AllDigits(s) \/ (s # <<>> /\ Head(s) = "-" /\ AllDigits(Tail(s)))

DigitValue(c) == (CHOOSE i \in 1..Len(Digits) : Digits[i] = c) - 1

RECURSIVE DigitsValue(_)
DigitsValue(s) ==
    IF s = <<>> THEN 0 ELSE 10 * DigitsValue(SubSeq(s, 1, Len(s) - 1)) + DigitValue(s[Len(s)])

RECURSIVE StripZeros(_)
\* the digits without their leading zeros
StripZeros(s) == IF s # <<>> /\ Head(s) = "0" THEN StripZeros(Tail(s)) ELSE s

\* the digits of the largest INTEGER (32 bits), 2147483647
IntegerMaxDigits == << "2", "1", "4", "7", "4", "8", "3", "6", "4", "7" >>

\* the digits of the magnitude of the smallest INTEGER, -2147483648
IntegerMinDigits == << "2", "1", "4", "7", "4", "8", "3", "6", "4", "8" >>

\* CAST(token AS INTEGER) succeeds: the number is within 32 bits
FitsInteger(token) ==
    LET negative == Head(token) = "-"
        mag      == StripZeros(IF negative THEN Tail(token) ELSE token)
        limit    == IF negative THEN IntegerMinDigits ELSE IntegerMaxDigits
    IN  \/ Len(mag) < Len(limit)
        \/ Len(mag) = Len(limit) /\ ~StrLess(limit, mag)

\* the rows of level_parsed: WHERE level IS NOT NULL AND base_address IS NOT NULL
\*                           AND base_address <> ''
LevelParsedRows(lpi_base_full) ==
    { g \in lpi_base_full : g.level # Null /\ NonEmpty(g.base_address) }

\* the CAST of a token that matches the pattern raises a conversion error
LevelCastFails(lpi_base_full) ==
    \E g \in LevelParsedRows(lpi_base_full) :
        LET token == SplitPart1(Val(g.level))
        IN  IsIntegerToken(token) /\ ~FitsInteger(token)

\* CASE WHEN split_part(level, ',', 1) ~ '^-?[0-9]+$'
\*      THEN CAST(split_part(level, ',', 1) AS INTEGER) ELSE NULL END
LevelInt(level) ==
    LET token == SplitPart1(Val(level))
    IN  IF ~IsIntegerToken(token) THEN Null
        ELSE IF Head(token) = "-" THEN Some(0 - DigitsValue(Tail(token)))
        ELSE Some(DigitsValue(token))

LevelWord(level_int) ==
    IF level_int = Some(0 - 1) THEN Some(<< "B", "A", "S", "E", "M", "E", "N", "T" >>)
    ELSE IF level_int = Some(0) THEN Some(<< "G", "R", "O", "U", "N", "D" >>)
    ELSE IF level_int = Some(1) THEN Some(<< "F", "I", "R", "S", "T" >>)
    ELSE IF level_int = Some(2) THEN Some(<< "S", "E", "C", "O", "N", "D" >>)
    ELSE IF level_int = Some(3) THEN Some(<< "T", "H", "I", "R", "D" >>)
    ELSE IF level_int = Some(4) THEN Some(<< "F", "O", "U", "R", "T", "H" >>)
    ELSE IF level_int = Some(5) THEN Some(<< "F", "I", "F", "T", "H" >>)
    ELSE IF level_int = Some(6) THEN Some(<< "S", "I", "X", "T", "H" >>)
    ELSE Null

LevelVariant(f) ==
    [ rid |-> << "CUSTOM_LEVEL", f.lpi_key >>,
      uprn |-> f.uprn,
      postcode |-> f.postcode,
      raw_address |-> TRIM(Concat(<< LevelWord(LevelInt(f.level)), Some(<<" ">>),
                                     f.base_address >>)),
      source |-> "CUSTOM_LEVEL",
      logical_status |-> Null,
      official_flag |-> Null,
      blpu_state |-> Null,
      postal_address_code |-> Null,
      parent_uprn |-> Null,
      hierarchy_level |-> Null,
      variant_label |-> Some("CUSTOM_LEVEL"),
      is_primary |-> FALSE ]

\* WHERE level_int BETWEEN -1 AND 6
LevelInRange(level_int) == level_int # Null /\ Val(level_int) >= 0 - 1 /\ Val(level_int) <= 6

\* _stage_custom_level_variants
RenderCustomLevelVariants(lpi_base_full) ==
    { LevelVariant(f) :
        f \in { g \in LevelParsedRows(lpi_base_full) :
                  /\ LevelInRange(LevelInt(g.level))
                  /\ LevelWord(LevelInt(g.level)) # Null } }

----------------------------------------------------------------------------
(* _combine_and_dedupe *)

\* the view _raw_address_variants
RawAddressVariants(stage_lpi, stage_business, stage_delivery_point, stage_custom_level) ==
    stage_lpi \cup stage_business \cup stage_delivery_point \cup stage_custom_level

\* REGEXP_REPLACE(REPLACE(raw_address, CHR(39), ''), '\s+', ' ')
NormalizeAddress(raw_address) == RegexpReplaceWs(StripQuotes(raw_address))

SourceRank(source) ==
    IF source = "LPI" THEN 0
    ELSE IF source = "ORGANISATION" THEN 1
    ELSE IF source = "DELIVERY_POINT" THEN 2
    ELSE IF source = "CUSTOM_LEVEL" THEN 3
    ELSE 4

\* the variant labels and the sources in the order VARCHAR values compare
LabelsInOrder ==
    << "ALTERNATIVE", "APPROVED", "BUSINESS_CURRENT", "BUSINESS_CURRENT_LEGAL",
       "BUSINESS_HISTORICAL", "BUSINESS_HISTORICAL_LEGAL", "CUSTOM_LEVEL", "DELIVERY",
       "HISTORICAL", "PROVISIONAL" >>

SourcesInOrder == << "CUSTOM_LEVEL", "DELIVERY_POINT", "LPI", "ORGANISATION" >>

\* the place of a nullable label in an ascending ORDER BY (NULLS LAST)
LabelOrd(variant_label) ==
    IF IsNull(variant_label) THEN Len(LabelsInOrder) + 1
    ELSE CHOOSE i \in 1..Len(LabelsInOrder) : LabelsInOrder[i] = Val(variant_label)

SourceOrd(source) == CHOOSE i \in 1..Len(SourcesInOrder) : SourcesInOrder[i] = source

\* the CTEs normalized and ranked
Ranked(v) ==
    [ rid |-> v.rid,
      uprn |-> v.uprn,
      postcode |-> v.postcode,
      address_concat |-> NormalizeAddress(v.raw_address),
      source |-> v.source,
      logical_status |-> v.logical_status,
      blpu_state |-> v.blpu_state,
      postal_address_code |-> v.postal_address_code,
      parent_uprn |-> v.parent_uprn,
      hierarchy_level |-> v.hierarchy_level,
      variant_label |-> v.variant_label,
      is_primary |-> v.is_primary,
      status_rank |-> StatusRank(v.logical_status),
      source_rank |-> SourceRank(v.source) ]

\* a deduplication that forgets the property: PARTITION BY address_concat
DedupKeyAddressOnly(r) == << r.address_concat >>

\* a deduplication per source: PARTITION BY uprn, address_concat, source
DedupKeyPerSource(r) == << r.uprn, r.address_concat, r.source >>

\* PARTITION BY uprn, address_concat
DedupKey(r) == << r.uprn, r.address_concat >>

\* a deduplication that looks at the source before the status
DedupOrderSourceFirst(r) ==
    << r.source_rank, IF r.is_primary THEN 0 ELSE 1, r.status_rank,
       LabelOrd(r.variant_label), SourceOrd(r.source) >>

\* ORDER BY is_primary DESC, status_rank, source_rank, variant_label, source
DedupOrder(r) ==
    << IF r.is_primary THEN 0 ELSE 1, r.status_rank, r.source_rank,
       LabelOrd(r.variant_label), SourceOrd(r.source) >>

DedupBetter(a, b) == LexLess(DedupOrder(a), DedupOrder(b))

DedupedColumns(r) ==
    [ uprn |-> r.uprn,
      postcode |-> r.postcode,
      address_concat |-> r.address_concat,
      source |-> r.source,
      logical_status |-> r.logical_status,
      blpu_state |-> r.blpu_state,
      postal_address_code |-> r.postal_address_code,
      parent_uprn |-> r.parent_uprn,
      hierarchy_level |-> r.hierarchy_level,
      variant_label |-> r.variant_label,
      is_primary |-> r.is_primary ]

\* the tables the CTE deduped_filtered can evaluate to
DedupedFiltered(raw_address_variants) ==
    { { DedupedColumns(r) : r \in t } :
        t \in RowNumberFirst({ Ranked(v) : v \in raw_address_variants },
                             DedupKey, DedupBetter) }

\* SUM(CASE WHEN is_primary THEN 1 ELSE 0 END) OVER (PARTITION BY uprn)
PrimaryCount(r, deduped_filtered) ==
    Cardinality({ x \in deduped_filtered : x.uprn = r.uprn /\ x.is_primary })

\* a uprn_rank ordered by the address alone
UprnRankBetterByAddress(a, b) == NStrLess(a.address_concat, b.address_concat)

\* ORDER BY source rank, variant_label, address_concat (of uprn_rank)
UprnRankBetter(a, b) ==
    LET ka == << SourceRank(a.source), LabelOrd(a.variant_label) >>
        kb == << SourceRank(b.source), LabelOrd(b.variant_label) >>
    IN  \/ LexLess(ka, kb)
        \/ ka = kb /\ NStrLess(a.address_concat, b.address_concat)

\* the sets of rows that can get uprn_rank = 1
UprnRankFirst(deduped_filtered) == RowNumberFirst(deduped_filtered, UprnKey, UprnRankBetter)

NullClassification == [ uprn |-> Null, classification_code |-> Null, class_scheme |-> Null ]

NullDeliveryPoint == [ uprn |-> Null, udprn |-> Null ]

\* a re-assignment that marks the first row of every property, whether or not
\* the property has a primary row already
FinalPrimaryAlwaysFirst(sr, deduped_filtered, rank_first) ==
    sr.is_primary \/ sr \in rank_first

\* CASE WHEN sr.primary_count > 0 THEN sr.is_primary ELSE sr.uprn_rank = 1 END
FinalPrimary(sr, deduped_filtered, rank_first) ==
    IF PrimaryCount(sr, deduped_filtered) > 0 THEN sr.is_primary ELSE sr \in rank_first

OutputRow(sr, cb, dp, is_primary) ==
    [ uprn |-> sr.uprn,
      postcode |-> sr.postcode,
      address_concat |-> sr.address_concat,
      classification_code |-> cb.classification_code,
      logical_status |-> sr.logical_status,
      blpu_state |-> sr.blpu_state,
      postal_address_code |-> sr.postal_address_code,
      udprn |-> dp.udprn,
      parent_uprn |-> sr.parent_uprn,
      hierarchy_level |-> sr.hierarchy_level,
      source |-> sr.source,
      variant_label |-> sr.variant_label,
      is_primary |-> is_primary ]

\* the final SELECT over one evaluation of deduped_filtered and of uprn_rank
FinalSelect(deduped_filtered, rank_first, classification_best, delivery_point_best) ==
    UNION { { OutputRow(sr, cb, dp, FinalPrimary(sr, deduped_filtered, rank_first)) :
                cb \in LeftMatches({ c \in classification_best : SqlEq(c.uprn, sr.uprn) },
                                   NullClassification),
                dp \in LeftMatches({ d \in delivery_point_best : SqlEq(d.uprn, sr.uprn) },
                                   NullDeliveryPoint) } :
            sr \in deduped_filtered }

\* the relations the lazy relation returned by _combine_and_dedupe can
\* evaluate to
CombineAndDedupe(raw_address_variants, classification_best, delivery_point_best) ==
    UNION { { FinalSelect(df, rf, classification_best, delivery_point_best) :
                rf \in UprnRankFirst(df) } :
            df \in DedupedFiltered(raw_address_variants) }

\* one evaluation per choice left open by the ties, of the whole pipeline of
\* transform_to_flatfile over the six registered views
Pipeline(in) ==
    UNION { UNION { UNION { UNION {
        LET full     == LpiBaseFull(in.lpi, in.blpu, sdl, sda)
            distinct == LpiBaseDistinct(full)
        IN  UNION { UNION {
                CombineAndDedupe(
                    RawAddressVariants(RenderLpiVariants(distinct), biz,
                                       RenderDeliveryPointVariants(in.delivery_point),
                                       RenderCustomLevelVariants(full)),
                    cb, dpb)
                : biz \in RenderBusinessVariants(in.organisation, distinct, bc) }
                : bc \in LpiBestCurrent(distinct) }
        : cb \in ClassificationBest(in.classification) }
        : dpb \in DeliveryPointBest(in.delivery_point) }
        : sda \in SdBestAny(in.street_descriptor) }
        : sdl \in SdBestByLang(in.street_descriptor) }

----------------------------------------------------------------------------
(* chunk_where and the predicate it writes *)

\* a range check that lets chunk_id = num_chunks through
chunk_whereInclusive(col, n, i) ==
    IF n < 1 THEN [ raised |-> "ValueError", predicate |-> Null ]
    ELSE IF ~(0 <= i /\ i <= n) THEN [ raised |-> "ValueError", predicate |-> Null ]
    ELSE [ raised |-> "none",
           predicate |-> Some([ col |-> col, num_chunks |-> n, chunk_id |-> i ]) ]

\* a predicate that takes the hash modulo one more than num_chunks
chunk_whereWiderModulus(col, n, i) ==
    IF n < 1 THEN [ raised |-> "ValueError", predicate |-> Null ]
    ELSE IF ~(0 <= i /\ i < n) THEN [ raised |-> "ValueError", predicate |-> Null ]
    ELSE [ raised |-> "none",
           predicate |-> Some([ col |-> col, num_chunks |-> n + 1, chunk_id |-> i ]) ]

\* chunk_where(col, num_chunks, chunk_id): the ValueError, or the predicate
\* "<col> IS NOT NULL AND (hash(<col>) % <num_chunks>) = <chunk_id>"
chunk_where(col, n, i) ==
    IF n < 1 THEN [ raised |-> "ValueError", predicate |-> Null ]
    ELSE IF ~(0 <= i /\ i < n) THEN [ raised |-> "ValueError", predicate |-> Null ]
    ELSE [ raised |-> "none",
           predicate |-> Some([ col |-> col, num_chunks |-> n, chunk_id |-> i ]) ]

\* the predicate on a row: hash() is DuckDB's, a fixed function from values
\* to unsigned 64-bit integers (h), so that % is the remainder in [0, n)
PredicateHolds(p, row, h) ==
    /\ row[p.col] # Null
    /\ (h[Val(row[p.col])] % p.num_chunks) = p.chunk_id

\* read_parquet(...) WHERE <where_condition> of _register_parquet_view
RegisterParquetView(rows, where_condition, h) ==
    IF IsNull(where_condition) THEN rows
    ELSE { r \in rows : PredicateHolds(Val(where_condition), r, h) }

----------------------------------------------------------------------------
(* _assert_inputs_exist *)

Required ==
    << "blpu", "lpi", "street_descriptor", "organisation", "delivery_point",
       "classification" >>

RequiredSet == { Required[i] : i \in 1..Len(Required) }

\* a check of the inputs that is not made before the check of the output
MissingInputsUnchecked(present) == << >>

\* a check whose list of required files stops short of the last one
MissingInputsShortList(present) ==
    SelectSeq(SubSeq(Required, 1, Len(Required) - 1), LAMBDA name : name \notin present)

\* missing = [name for name in required if not (...).exists()]
MissingInputs(present) == SelectSeq(Required, LAMBDA name : name \notin present)

----------------------------------------------------------------------------
(* Bounds and input rows *)

\* at most this many rows in the six input tables together
MaxRows == 5

\* at most this many invocations of transform_to_flatfile in one behaviour
MaxRuns == 2

\* num_chunks and chunk_id range up to this
MaxChunks == 4

\* hash values range over 0..MaxHash
MaxHash == 4

Uprns == { 1, 2 }

BlpuRow(u, postal, parent) ==
    [ uprn |-> Some(u),
      postcode_locator |-> Some("PC"),
      blpu_state |-> Some(2),
      addressbase_postal |-> postal,
      parent_uprn |-> parent ]

LpiRow(key, u, status, text, level) ==
    [ uprn |-> Some(u),
      lpi_key |-> Some(key),
      language |-> Some("ENG"),
      logical_status |-> Some(status),
      official_flag |-> Null,
      start_date |-> Null,
      end_date |-> Null,
      last_update_date |-> Null,
      usrn |-> Some(1),
      level |-> level,
      sao_text |-> Null,
      sao_start_number |-> Null,
      sao_start_suffix |-> Null,
      sao_end_number |-> Null,
      sao_end_suffix |-> Null,
      pao_text |-> Some(text),
      pao_start_number |-> Null,
      pao_start_suffix |-> Null,
      pao_end_number |-> Null,
      pao_end_suffix |-> Null ]

SdRow(usrn, language, street) ==
    [ usrn |-> Some(usrn),
      language |-> Some(language),
      street_description |-> Some(street),
      locality |-> Null,
      town_name |-> Null,
      end_date |-> Null,
      last_update_date |-> Null ]

OrgRow(key, u, name, start, end) ==
    [ org_key |-> Some(key),
      uprn |-> Some(u),
      organisation |-> Some(name),
      legal_name |-> Null,
      start_date |-> start,
      end_date |-> end ]

DpRow(u, udprn, name) ==
    [ uprn |-> u,
      udprn |-> udprn,
      postcode |-> Some("PC"),
      department_name |-> Null,
      organisation_name |-> Null,
      sub_building_name |-> Null,
      building_name |-> Some(name),
      building_number |-> Null,
      dependent_thoroughfare |-> Null,
      thoroughfare |-> Null,
      double_dependent_locality |-> Null,
      dependent_locality |-> Null,
      post_town |-> Null,
      end_date |-> Null,
      last_update_date |-> Null ]

ClsRow(u, code, scheme) ==
    [ uprn |-> Some(u),
      classification_code |-> Some(code),
      class_scheme |-> Some(scheme),
      end_date |-> Null,
      last_update_date |-> Null ]

RECURSIVE SubsetsUpTo(_, _)
\* the subsets of S of at most k elements
SubsetsUpTo(S, k) ==
    IF k = 0 THEN {{}}
    ELSE LET P == SubsetsUpTo(S, k - 1)
         IN  P \cup { p \cup {x} : p \in P, x \in S }

\* the rows of one table among tagged rows
TableOf(S, name) == { x[2] : x \in { y \in S : y[1] = name } }

\* uprn is the key of blpu
BlpuKeyed(S) ==
    \A x \in S, y \in S : (x[1] = "blpu" /\ y[1] = "blpu" /\ x[2].uprn = y[2].uprn) => x = y

Dataset(S) ==
    [ blpu |-> TableOf(S, "blpu"),
      lpi |-> TableOf(S, "lpi"),
      street_descriptor |-> TableOf(S, "street_descriptor"),
      organisation |-> TableOf(S, "organisation"),
      delivery_point |-> TableOf(S, "delivery_point"),
      classification |-> TableOf(S, "classification") ]

\* the datasets of at most MaxRows rows drawn from a universe of tagged rows
Datasets(universe) ==
    { Dataset(S) : S \in { T \in SubsetsUpTo(universe, MaxRows) : BlpuKeyed(T) } }

\* the rows the inputs of Spec are drawn from
Universe ==
    { << "blpu", BlpuRow(1, Some("D"), Null) >>,
      << "blpu", BlpuRow(2, Some("D"), Null) >>,
      << "blpu", BlpuRow(2, Some("N"), Null) >>,
      << "blpu", BlpuRow(2, Some("D"), Some(1)) >>,
      << "lpi", LpiRow(1, 1, 1, << "A" >>, Null) >>,
      << "lpi", LpiRow(2, 1, 1, << "B" >>, Null) >>,
      << "lpi", LpiRow(3, 1, 8, << "A", "'" >>, Null) >>,
      << "lpi", LpiRow(4, 1, 8, << "A", " ", "B" >>, Null) >>,
      << "lpi", LpiRow(5, 1, 3, << "B" >>, Some(<< "1" >>)) >>,
      << "lpi", LpiRow(6, 2, 8, << "A" >>, Null) >>,
      << "lpi", LpiRow(7, 2, 1, << "A" >>, Null) >>,
      << "lpi", LpiRow(8, 2, 1, << >>, Null) >>,
      << "street_descriptor", SdRow(1, "ENG", << "S" >>) >>,
      << "organisation", OrgRow(1, 1, << "A" >>, Null, Null) >>,
      << "organisation", OrgRow(2, 1, << "A" >>, Some(3), Some(5)) >>,
      << "organisation", OrgRow(3, 2, << "A" >>, Null, Null) >>,
      << "delivery_point", DpRow(Some(1), Some(1), << "A" >>) >>,
      << "delivery_point", DpRow(Some(2), Some(2), << "A" >>) >>,
      << "delivery_point", DpRow(Null, Some(3), << "B" >>) >>,
      << "classification", ClsRow(1, "RD", ModernScheme) >> }

----------------------------------------------------------------------------
(* State *)

VARIABLES
    parquet,      \* the six tables of parquet_dir/raw (the files' contents)
    files,        \* the names of the required parquet files that exist
    outdir,       \* whether output_dir exists
    output,       \* the file at output_path: absent, partial or complete
    pc,           \* where transform_to_flatfile is ("idle": not running)
    force,        \* the force argument of the running invocation
    runs,         \* the invocations made so far
    con,          \* whether the invocation holds an open connection
    views,        \* the views registered on the connection
    macros,       \* whether the two macros are defined
    tables,       \* the temporary tables of the connection, by name
    result,       \* whether the lazy relation `result` is defined
    counts,       \* <<input_uprn_count, output_uprn_count, total_variants>>
    ret,          \* how the last invocation ended
    log,          \* the last message logged
    did,          \* the side effects of the current invocation, by kind
    at_call,      \* the files and the output as they were when the invocation started
    num_chunks, chunk_id, hash, called, chunks,
    fn,           \* the pure function applied on its own ("none": not yet)
    args,         \* its arguments
    value         \* what it returned

vars ==
    << parquet, files, outdir, output, pc, force, runs, con, views, macros, tables,
       result, counts, ret, log, did, at_call, num_chunks, chunk_id, hash, called,
       chunks, fn, args, value >>

fsVars == << parquet, files, outdir, output >>

callVars == << fn, args, value >>

chunkVars == << num_chunks, chunk_id, hash, called, chunks, callVars >>

Absent == [ state |-> "absent", rows |-> {} ]

Partial == [ state |-> "partial", rows |-> {} ]

Complete(rows) == [ state |-> "complete", rows |-> rows ]

NoTables == [ n \in {} |-> {} ]

\* CREATE [OR REPLACE] TABLE name AS rows
Put(t, name, rows) ==
    [ n \in DOMAIN t \cup {name} |-> IF n = name THEN rows ELSE t[n] ]

NoReturn == [ kind |-> "none", what |-> "none", detail |-> << >> ]

Returned(path) == [ kind |-> "returned", what |-> path, detail |-> << >> ]

Raised(error, detail) == [ kind |-> "raised", what |-> error, detail |-> detail ]

OutputPath == "output_dir/abp_for_uk_address_matcher.parquet"

\* SELECT COUNT(DISTINCT uprn)
CountDistinctUprn(rows) == Cardinality({ r.uprn : r \in rows } \ {Null})

\* what the relation `result` can evaluate to on the connection's tables
ResultEvaluations ==
    CombineAndDedupe(
        RawAddressVariants(tables["_stage_lpi_variants"], tables["_stage_business_variants"],
                           tables["_stage_delivery_point_variants"],
                           tables["_stage_custom_level_variants"]),
        tables["classification_best"], tables["delivery_point_best"])

\* the function ends: its connection, a local, goes with it
Leave(r) ==
    /\ pc' = "idle"
    /\ ret' = r
    /\ con' = FALSE
    /\ views' = {}
    /\ macros' = FALSE
    /\ tables' = NoTables
    /\ result' = FALSE
    /\ counts' = Null

Goto(next) ==
    /\ pc' = next
    /\ UNCHANGED << ret, con, views, macros, tables, result, counts >>

----------------------------------------------------------------------------
(* transform_to_flatfile, one action per step *)

Invoke(f) ==
    /\ pc = "idle"
    /\ runs < MaxRuns
    /\ pc' = "assert_inputs"
    /\ force' = f
    /\ runs' = runs + 1
    /\ ret' = NoReturn
    /\ log' = "none"
    /\ did' = {}
    /\ at_call' = [ output |-> output, files |-> files, outdir |-> outdir ]
    /\ UNCHANGED << fsVars, con, views, macros, tables, result, counts, chunkVars >>

\* _assert_inputs_exist(parquet_dir) finds every file
AssertInputsOk ==
    /\ pc = "assert_inputs"
    /\ MissingInputs(files) = << >>
    /\ Goto("check_output")
    /\ UNCHANGED << fsVars, force, runs, log, did, at_call, chunkVars >>

\* _assert_inputs_exist(parquet_dir) raises
AssertInputsMissing ==
    /\ pc = "assert_inputs"
    /\ MissingInputs(files) # << >>
    /\ Leave(Raised("FileNotFoundError", MissingInputs(files)))
    /\ UNCHANGED << fsVars, force, runs, log, did, at_call, chunkVars >>

\* a skip that reads the flag the wrong way round
ShouldSkipInverted(exists, forced) == exists /\ forced

\* output_path.exists() and not force
ShouldSkip(exists, forced) == exists /\ ~forced

\* if output_path.exists() and not force: return output_path
SkipExisting ==
    /\ pc = "check_output"
    /\ ShouldSkip(output.state # "absent", force)
    /\ log' = "Output already exists"
    /\ Leave(Returned(OutputPath))
    /\ UNCHANGED << fsVars, force, runs, did, at_call, chunkVars >>

Proceed ==
    /\ pc = "check_output"
    /\ ~ShouldSkip(output.state # "absent", force)
    /\ Goto("mkdir")
    /\ UNCHANGED << fsVars, force, runs, log, did, at_call, chunkVars >>

\* output_dir.mkdir(parents=True, exist_ok=True)
Mkdir ==
    /\ pc = "mkdir"
    /\ outdir' = TRUE
    /\ did' = did \cup {"mkdir"}
    /\ log' = "Starting flatfile transformation"
    /\ Goto("connect")
    /\ UNCHANGED << parquet, files, output, force, runs, at_call, chunkVars >>

\* con = create_duckdb_connection(settings)
Connect ==
    /\ pc = "connect"
    /\ pc' = "register"
    /\ con' = TRUE
    /\ did' = did \cup {"connect"}
    /\ UNCHANGED << fsVars, force, runs, ret, views, macros, tables, result, counts, log,
                    at_call, chunkVars >>

\* the six calls of _register_parquet_view, none with a where_condition
RegisterViews ==
    /\ pc = "register"
    /\ pc' = "macros"
    /\ views' = RequiredSet
    /\ UNCHANGED << fsVars, force, runs, ret, con, macros, tables, result, counts, log, did,
                    at_call, chunkVars >>

CreateMacros ==
    /\ pc = "macros"
    /\ pc' = "prepare_sd"
    /\ macros' = TRUE
    /\ UNCHANGED << fsVars, force, runs, ret, con, views, tables, result, counts, log, did,
                    at_call, chunkVars >>

PrepareStreetDescriptorViews ==
    /\ pc = "prepare_sd"
    /\ pc' = "prepare_lpi_base"
    /\ views' = views \cup { "_sd_best_by_lang", "_sd_best_any" }
    /\ UNCHANGED << fsVars, force, runs, ret, con, macros, tables, result, counts, log, did,
                    at_call, chunkVars >>

\* a step that only creates temporary tables
Creates(next, t) ==
    /\ pc' = next
    /\ tables' = t
    /\ did' = did \cup {"create_table"}
    /\ UNCHANGED << fsVars, force, runs, ret, con, views, macros, result, counts, log,
                    at_call, chunkVars >>

PrepareLpiBase ==
    /\ pc = "prepare_lpi_base"
    /\ \E sdl \in SdBestByLang(parquet.street_descriptor),
          sda \in SdBestAny(parquet.street_descriptor) :
          LET full     == LpiBaseFull(parquet.lpi, parquet.blpu, sdl, sda)
              distinct == LpiBaseDistinct(full)
          IN  \E best \in LpiBestCurrent(distinct) :
                Creates("prepare_dp_best",
                        Put(Put(Put(tables, "lpi_base_full", full),
                                "lpi_base_distinct", distinct),
                            "lpi_best_current", best))

PrepareDeliveryPointBest ==
    /\ pc = "prepare_dp_best"
    /\ \E best \in DeliveryPointBest(parquet.delivery_point) :
          Creates("prepare_cls_best", Put(tables, "delivery_point_best", best))

PrepareClassificationBest ==
    /\ pc = "prepare_cls_best"
    /\ \E best \in ClassificationBest(parquet.classification) :
          Creates("render_lpi", Put(tables, "classification_best", best))

RenderLpi ==
    /\ pc = "render_lpi"
    /\ Creates("render_business",
               Put(tables, "_stage_lpi_variants",
                   RenderLpiVariants(tables["lpi_base_distinct"])))

RenderBusiness ==
    /\ pc = "render_business"
    /\ \E stage \in RenderBusinessVariants(parquet.organisation, tables["lpi_base_distinct"],
                                           tables["lpi_best_current"]) :
          Creates("render_dp", Put(tables, "_stage_business_variants", stage))

RenderDeliveryPoint ==
    /\ pc = "render_dp"
    /\ Creates("render_level",
               Put(tables, "_stage_delivery_point_variants",
                   RenderDeliveryPointVariants(parquet.delivery_point)))

RenderCustomLevel ==
    /\ pc = "render_level"
    /\ ~LevelCastFails(tables["lpi_base_full"])
    /\ Creates("combine",
               Put(tables, "_stage_custom_level_variants",
                   RenderCustomLevelVariants(tables["lpi_base_full"])))

\* ... or the CAST of a level raises, and the exception leaves the function
RenderCustomLevelFails ==
    /\ pc = "render_level"
    /\ LevelCastFails(tables["lpi_base_full"])
    /\ Leave(Raised("ConversionException", << "level" >>))
    /\ UNCHANGED << fsVars, force, runs, log, did, at_call, chunkVars >>

\* result = _combine_and_dedupe(con): the view and the lazy relation
Combine ==
    /\ pc = "combine"
    /\ pc' = "count"
    /\ views' = views \cup { "_raw_address_variants" }
    /\ result' = TRUE
    /\ UNCHANGED << fsVars, force, runs, ret, con, macros, tables, counts, log, did,
                    at_call, chunkVars >>

\* the two COUNT queries; the second evaluates `result`
CountRows ==
    /\ pc = "count"
    /\ pc' = "assert_counts"
    /\ \E res \in ResultEvaluations :
          counts' = Some(<< CountDistinctUprn(tables["lpi_base_distinct"]),
                            CountDistinctUprn(res), Cardinality(res) >>)
    /\ UNCHANGED << fsVars, force, runs, ret, con, views, macros, tables, result, log, did,
                    at_call, chunkVars >>

\* a check that only looks for lost property ids
CountsAgreeLostOnly(input_uprn_count, output_uprn_count) ==
    input_uprn_count <= output_uprn_count

\* input_uprn_count == output_uprn_count
CountsAgree(input_uprn_count, output_uprn_count) == input_uprn_count = output_uprn_count

\* assert input_uprn_count == output_uprn_count holds
IntegrityOk ==
    /\ pc = "assert_counts"
    /\ CountsAgree(Val(counts)[1], Val(counts)[2])
    /\ Goto("stats")
    /\ UNCHANGED << fsVars, force, runs, log, did, at_call, chunkVars >>

\* ... or raises "Lost UPRNs during processing! Input: .., Output: .."
IntegrityFail ==
    /\ pc = "assert_counts"
    /\ ~CountsAgree(Val(counts)[1], Val(counts)[2])
    /\ Leave(Raised("AssertionError", << Val(counts)[1], Val(counts)[2] >>))
    /\ UNCHANGED << fsVars, force, runs, log, did, at_call, chunkVars >>

\* variant_uplift_pct = ((total_variants - output_uprn_count) / output_uprn_count) * 100
StatsOk ==
    /\ pc = "stats"
    /\ Val(counts)[2] # 0
    /\ log' = "Address Statistics"
    /\ Goto("unlink")
    /\ UNCHANGED << fsVars, force, runs, did, at_call, chunkVars >>

\* ... which divides by zero when the output has no uprn
StatsZeroDivision ==
    /\ pc = "stats"
    /\ Val(counts)[2] = 0
    /\ Leave(Raised("ZeroDivisionError", << >>))
    /\ UNCHANGED << fsVars, force, runs, log, did, at_call, chunkVars >>

\* if output_path.exists(): output_path.unlink()
Unlink ==
    /\ pc = "unlink"
    /\ output' = Absent
    /\ did' = IF output.state # "absent" THEN did \cup {"unlink"} ELSE did
    /\ Goto("write")
    /\ UNCHANGED << parquet, files, outdir, force, runs, log, at_call, chunkVars >>

\* result.write_parquet(output_path): evaluates `result` again and writes it
Write ==
    /\ pc = "write"
    /\ \E res \in ResultEvaluations : output' = Complete(res)
    /\ did' = did \cup {"write"}
    /\ log' = "Output"
    /\ Leave(Returned(OutputPath))
    /\ UNCHANGED << parquet, files, outdir, force, runs, at_call, chunkVars >>

----------------------------------------------------------------------------
(* Spec: one invocation, on every dataset of the universe, with the six    *)
(* files in place and no output yet                                        *)

NoCall ==
    /\ fn = "none"
    /\ args = << >>
    /\ value = Null

NoChunks ==
    /\ num_chunks = 0
    /\ chunk_id = 0
    /\ hash = [ u \in Uprns |-> 0 ]
    /\ called = Null
    /\ chunks = << >>
    /\ NoCall

Idle ==
    /\ con = FALSE
    /\ views = {}
    /\ macros = FALSE
    /\ tables = NoTables
    /\ result = FALSE
    /\ counts = Null
    /\ ret = NoReturn
    /\ log = "none"
    /\ did = {}

Init ==
    /\ parquet \in Datasets(Universe)
    /\ files = RequiredSet
    /\ outdir = FALSE
    /\ output = Absent
    /\ pc = "assert_inputs"
    /\ force = FALSE
    /\ runs = 1
    /\ at_call = [ output |-> Absent, files |-> RequiredSet, outdir |-> FALSE ]
    /\ Idle
    /\ NoChunks

Next ==
    \/ AssertInputsOk
    \/ Proceed
    \/ Mkdir
    \/ Connect
    \/ RegisterViews
    \/ CreateMacros
    \/ PrepareStreetDescriptorViews
    \/ PrepareLpiBase
    \/ PrepareDeliveryPointBest
    \/ PrepareClassificationBest
    \/ RenderLpi
    \/ RenderBusiness
    \/ RenderDeliveryPoint
    \/ RenderCustomLevel
    \/ Combine
    \/ CountRows
    \/ IntegrityOk
    \/ IntegrityFail
    \/ StatsOk
    \/ StatsZeroDivision
    \/ Unlink
    \/ Write

Spec == Init /\ [][Next]_vars

----------------------------------------------------------------------------
(* Claims about the Combiner's output, under Spec *)

PrimariesOf(res, u) == { r \in res : r.uprn = u /\ r.is_primary }

\* C1 (no-loss): once the Combiner has returned its relation, every
\* property id of lpi_base_distinct has at least one row in whatever the
\* relation evaluates to.
C1_NoLoss ==
    result =>
        \A res \in ResultEvaluations :
            \A d \in tables["lpi_base_distinct"] : \E r \in res : r.uprn = d.uprn

\* the case of C1: two properties in lpi_base_distinct, and a collision that
\* the deduplication resolved (fewer rows out than variants in)
C1_Witness ==
    /\ result
    /\ Cardinality({ d.uprn : d \in tables["lpi_base_distinct"] }) = 2
    /\ \E res \in ResultEvaluations :
          Cardinality(res) <
            Cardinality(RawAddressVariants(tables["_stage_lpi_variants"],
                                           tables["_stage_business_variants"],
                                           tables["_stage_delivery_point_variants"],
                                           tables["_stage_custom_level_variants"]))

UniqueAddresses(res) ==
    \A r1 \in res, r2 \in res :
        (r1.uprn = r2.uprn /\ r1.address_concat = r2.address_concat) => r1 = r2

\* C2 (uniqueness): no two rows of the final relation, after deduplication
\* and the two left joins, have the same property id and the same
\* normalized address; the same holds of the file written.
C2_Uniqueness ==
    /\ result => \A res \in ResultEvaluations : UniqueAddresses(res)
    /\ output.state = "complete" => UniqueAddresses(output.rows)

\* the case of C2: a written file where an Official row and a Postal row of
\* one property had the same normalized address, the property has a
\* classification and a delivery point joined, and several rows remain
C2_Witness ==
    /\ output.state = "complete"
    /\ \E r \in output.rows :
          /\ r.source = "LPI"
          /\ r.classification_code # Null
          /\ r.udprn # Null
          /\ \E d \in parquet.delivery_point :
                d.uprn = r.uprn /\ DeliveryRawAddress(d) = r.address_concat
          /\ \E r2 \in output.rows : r2.uprn = r.uprn /\ r2 # r

\* C3 (single primary), as claimed: every property id with a row in the
\* final relation has exactly one row with is_primary = true.
C3_SinglePrimary ==
    result =>
        \A res \in ResultEvaluations :
            \A r \in res : Cardinality(PrimariesOf(res, r.uprn)) = 1

----------------------------------------------------------------------------
(* SpecRun: up to MaxRuns invocations, with or without force, over a small *)
(* dataset; an output file may be there from before, input files may       *)
(* disappear between invocations, and any step that touches the database   *)
(* or the file system may raise                                            *)

\* the rows the inputs of SpecRun are drawn from
RunUniverse ==
    { << "blpu", BlpuRow(1, Some("D"), Null) >>,
      << "lpi", LpiRow(1, 1, 1, << "A" >>, Null) >>,
      << "delivery_point", DpRow(Some(1), Some(1), << "A" >>) >>,
      << "delivery_point", DpRow(Some(2), Some(2), << "A" >>) >> }

\* an output file written by some earlier run over other inputs
StaleOutput ==
    Complete({ [ uprn |-> Some(1), postcode |-> Some("PC"),
                 address_concat |-> Some(<< "Z" >>), classification_code |-> Null,
                 logical_status |-> Some(1), blpu_state |-> Some(2),
                 postal_address_code |-> Some("D"), udprn |-> Null, parent_uprn |-> Null,
                 hierarchy_level |-> Some("S"), source |-> "LPI",
                 variant_label |-> Some("APPROVED"), is_primary |-> TRUE ] })

InitRun ==
    /\ parquet \in Datasets(RunUniverse)
    /\ files = RequiredSet
    /\ output \in { Absent, StaleOutput }
    /\ outdir = (output # Absent)
    /\ pc = "idle"
    /\ force = FALSE
    /\ runs = 0
    /\ at_call = [ output |-> output, files |-> files, outdir |-> outdir ]
    /\ Idle
    /\ NoChunks

\* between invocations, a required input file disappears
RemoveInput(name) ==
    /\ pc = "idle"
    /\ name \in files
    /\ files' = files \ {name}
    /\ UNCHANGED << parquet, outdir, output, pc, force, runs, con, views, macros, tables,
                    result, counts, ret, log, did, at_call, chunkVars >>

\* the steps that call into the database or the file system
FailPoints ==
    { "mkdir", "connect", "register", "macros", "prepare_sd", "prepare_lpi_base",
      "prepare_dp_best", "prepare_cls_best", "render_lpi", "render_business", "render_dp",
      "render_level", "combine", "count", "unlink", "write" }

\* the step raises (a database or an I/O error); a write that fails leaves
\* no file or part of one
Fail ==
    /\ pc \in FailPoints
    /\ output' \in IF pc = "write" THEN { Absent, Partial } ELSE { output }
    /\ Leave(Raised("Error", << pc >>))
    /\ UNCHANGED << parquet, files, outdir, force, runs, log, did, at_call, chunkVars >>

NextRun ==
    \/ \E f \in BOOLEAN : Invoke(f)
    \/ \E name \in RequiredSet : RemoveInput(name)
    \/ AssertInputsOk
    \/ AssertInputsMissing
    \/ SkipExisting
    \/ Proceed
    \/ Mkdir
    \/ Connect
    \/ RegisterViews
    \/ CreateMacros
    \/ PrepareStreetDescriptorViews
    \/ PrepareLpiBase
    \/ PrepareDeliveryPointBest
    \/ PrepareClassificationBest
    \/ RenderLpi
    \/ RenderBusiness
    \/ RenderDeliveryPoint
    \/ RenderCustomLevel
    \/ Combine
    \/ CountRows
    \/ IntegrityOk
    \/ IntegrityFail
    \/ StatsOk
    \/ StatsZeroDivision
    \/ Unlink
    \/ Write
    \/ Fail

SpecRun == InitRun /\ [][NextRun]_vars

----------------------------------------------------------------------------
(* Claims about the invocation as a whole, under SpecRun *)

\* the last invocation is over
Ended == pc = "idle" /\ ret.kind # "none"

\* the distinct property ids of lpi_base_distinct, straight from the inputs
InputUprnCounts(in) ==
    { CountDistinctUprn(LpiBaseDistinct(LpiBaseFull(in.lpi, in.blpu, sdl, sda))) :
        sdl \in SdBestByLang(in.street_descriptor), sda \in SdBestAny(in.street_descriptor) }

\* C4 (idempotence without force): an invocation without force that finds
\* every input and a complete output file in place computes nothing and
\* writes nothing; from the existence check on it has had no side effect,
\* the file is as it was, and it ends by returning the output path with the
\* message that the output already exists.
C4_IdempotentWithoutForce ==
    (/\ ~force
     /\ runs > 0
     /\ at_call.files = RequiredSet
     /\ at_call.output.state = "complete")
    => /\ pc \in { "idle", "assert_inputs", "check_output" }
       /\ did = {}
       /\ ~con
       /\ tables = NoTables
       /\ output = at_call.output
       /\ Ended => (ret = Returned(OutputPath) /\ log = "Output already exists")

\* the case of C4: the first invocation wrote the file, the second, without
\* force, has ended
C4_Witness ==
    /\ Ended
    /\ runs = 2
    /\ ~force
    /\ at_call.files = RequiredSet
    /\ at_call.output.state = "complete"
    /\ at_call.output # StaleOutput
    /\ ret = Returned(OutputPath)

\* C5 (atomic replacement), as claimed: during and after a forced invocation
\* that found a complete output file, the file at the output path is the
\* complete previous output or a complete new one, never absent or partial.
C5_AtomicReplacement ==
    (/\ force
     /\ runs > 0
     /\ at_call.output.state = "complete")
    => output.state = "complete"

\* C6 (missing input): an invocation that finds any of the six required
\* files missing goes no further than the check of the inputs, and ends by
\* raising FileNotFoundError naming the missing files in the order of the
\* required list, with no directory made, no connection opened, no table
\* created and the output file as it was.
C6_MissingInput ==
    /\ (pc \notin { "idle", "assert_inputs" }) => at_call.files = RequiredSet
    /\ (Ended /\ at_call.files # RequiredSet)
       => /\ ret.kind = "raised"
          /\ ret.what = "FileNotFoundError"
          /\ ret.detail = SelectSeq(Required, LAMBDA name : name \notin at_call.files)
          /\ did = {}
          /\ outdir = at_call.outdir
          /\ output = at_call.output
    /\ (ret.what = "FileNotFoundError") => at_call.files # RequiredSet

\* the case of C6: an invocation over a directory lacking two files, the
\* last of the list among them, has raised
C6_Witness ==
    /\ Ended
    /\ ret.what = "FileNotFoundError"
    /\ Len(ret.detail) = 2
    /\ "classification" \notin at_call.files

\* C7 (integrity violation): the two counts taken are those of
\* lpi_base_distinct and of the final relation; the invocation goes past the
\* check only if they are equal; when they differ it ends by raising
\* AssertionError carrying both counts, having deleted and written nothing,
\* with the output file as it was.
C7_IntegrityViolation ==
    /\ (pc = "assert_counts")
       => /\ Val(counts)[1] = CountDistinctUprn(tables["lpi_base_distinct"])
          /\ \A res \in ResultEvaluations : Val(counts)[2] = CountDistinctUprn(res)
    /\ (pc \in { "stats", "unlink", "write" }) => Val(counts)[1] = Val(counts)[2]
    /\ (Ended /\ "write" \in did) => CountDistinctUprn(output.rows) \in InputUprnCounts(parquet)
    /\ (Ended /\ ret.what = "AssertionError")
       => /\ Len(ret.detail) = 2
          /\ ret.detail[1] # ret.detail[2]
          /\ ret.detail[1] \in InputUprnCounts(parquet)
          /\ did \cap { "unlink", "write" } = {}
          /\ output = at_call.output

\* the case of C7: a forced invocation over an existing output file found
\* more property ids in the final relation than in lpi_base_distinct, and
\* has raised
C7_Witness ==
    /\ Ended
    /\ ret.what = "AssertionError"
    /\ force
    /\ at_call.output.state = "complete"
    /\ ret.detail = << 1, 2 >>

----------------------------------------------------------------------------
(* SpecChunk: chunk_where called once on every num_chunks and chunk_id from *)
(* -1 to MaxChunks, under every hash function into 0..MaxHash, and the     *)
(* predicate it returns put on a view of a table                           *)

\* the table the view is registered on: two rows of one property, one of
\* another, one without a property id
ChunkTable ==
    { DpRow(Some(1), Some(1), << "A" >>), DpRow(Some(1), Some(2), << "B" >>),
      DpRow(Some(2), Some(3), << "A" >>), DpRow(Null, Some(4), << "A" >>) }

NotInvoked ==
    /\ files = RequiredSet
    /\ outdir = FALSE
    /\ output = Absent
    /\ pc = "idle"
    /\ force = FALSE
    /\ runs = 0
    /\ at_call = [ output |-> Absent, files |-> RequiredSet, outdir |-> FALSE ]
    /\ Idle

InitChunk ==
    /\ parquet = [ Dataset({}) EXCEPT !.delivery_point = ChunkTable ]
    /\ NotInvoked
    /\ num_chunks \in (0 - 1)..MaxChunks
    /\ chunk_id \in (0 - 1)..MaxChunks
    /\ hash \in [ Uprns -> 0..MaxHash ]
    /\ called = Null
    /\ chunks = << >>
    /\ NoCall

runVars ==
    << parquet, files, outdir, output, pc, force, runs, con, views, macros, tables,
       result, counts, ret, log, did, at_call >>

\* chunk_where("uprn", num_chunks, chunk_id) raises
ChunkWhereRaises ==
    /\ called = Null
    /\ chunk_where("uprn", num_chunks, chunk_id).raised # "none"
    /\ called' = Some(chunk_where("uprn", num_chunks, chunk_id))
    /\ UNCHANGED << runVars, num_chunks, chunk_id, hash, chunks, callVars >>

\* chunk_where("uprn", num_chunks, chunk_id) returns
ChunkWhereReturns ==
    /\ called = Null
    /\ chunk_where("uprn", num_chunks, chunk_id).raised = "none"
    /\ called' = Some(chunk_where("uprn", num_chunks, chunk_id))
    /\ UNCHANGED << runVars, num_chunks, chunk_id, hash, chunks, callVars >>

\* register_parquet_view(con, "delivery_point", path, where_condition)
RegisterChunkView ==
    /\ called # Null
    /\ Val(called).raised = "none"
    /\ chunks = << >>
    /\ chunks' = << RegisterParquetView(parquet.delivery_point, Val(called).predicate, hash) >>
    /\ UNCHANGED << runVars, num_chunks, chunk_id, hash, called, callVars >>

NextChunk ==
    \/ ChunkWhereRaises
    \/ ChunkWhereReturns
    \/ RegisterChunkView

SpecChunk == InitChunk /\ [][NextChunk]_vars

\* C8 (chunk bound violation): a call of chunk_where has raised ValueError,
\* returning no predicate, exactly when num_chunks < 1 or chunk_id is
\* outside [0, num_chunks); otherwise it has returned a predicate and has
\* not raised.
C8_ChunkBounds ==
    called # Null =>
        LET out_of_bounds == num_chunks < 1 \/ chunk_id < 0 \/ chunk_id >= num_chunks
        IN  /\ out_of_bounds => Val(called) = [ raised |-> "ValueError", predicate |-> Null ]
            /\ ~out_of_bounds => /\ Val(called).raised = "none"
                                 /\ Val(called).predicate # Null

\* the case of C8: chunk_where was called with chunk_id = num_chunks, the
\* first id out of range, and raised
C8_Witness ==
    /\ called # Null
    /\ num_chunks = 3
    /\ chunk_id = num_chunks
    /\ Val(called).raised = "ValueError"

\* the rows of a table that satisfy the predicate chunk_where writes for i
ChunkRows(rows, n, i, h) == RegisterParquetView(rows, chunk_where("uprn", n, i).predicate, h)

\* C9 (chunk partition): once a predicate of chunk_where is on a view, the
\* view holds the rows of its chunk; the num_chunks predicates for ids
\* 0 .. num_chunks - 1 are satisfied, each row with a property id by exactly
\* one of them, and rows with the same property id by the same one.
C9_ChunkPartition ==
    chunks # << >> =>
        LET rows == parquet.delivery_point
            ids  == 0..(num_chunks - 1)
        IN  /\ chunks[1] = ChunkRows(rows, num_chunks, chunk_id, hash)
            /\ \A r \in rows :
                  r.uprn # Null =>
                      Cardinality({ i \in ids : r \in ChunkRows(rows, num_chunks, i, hash) }) = 1
            /\ \A r1 \in rows, r2 \in rows :
                  (r1.uprn # Null /\ r1.uprn = r2.uprn) =>
                      \A i \in ids : r1 \in ChunkRows(rows, num_chunks, i, hash)
                                     <=> r2 \in ChunkRows(rows, num_chunks, i, hash)

\* the case of C9: three chunks, the two properties hashed to different
\* ones, and the view of the last chunk holding rows
C9_Witness ==
    /\ chunks # << >>
    /\ num_chunks = 3
    /\ chunk_id = 2
    /\ hash[1] % 3 # hash[2] % 3
    /\ Cardinality(chunks[1]) = 2

----------------------------------------------------------------------------
(* SpecChunked: the pipeline run once over the whole input (one chunk) and *)
(* once per chunk of num_chunks, every table with a uprn column restricted *)
(* by the chunk's predicate; the outputs of the chunks are concatenated    *)

\* the six views of one chunk: the predicate on uprn where there is a uprn
RestrictDataset(in, where_condition, h) ==
    [ blpu |-> RegisterParquetView(in.blpu, where_condition, h),
      lpi |-> RegisterParquetView(in.lpi, where_condition, h),
      street_descriptor |-> in.street_descriptor,
      organisation |-> RegisterParquetView(in.organisation, where_condition, h),
      delivery_point |-> RegisterParquetView(in.delivery_point, where_condition, h),
      classification |-> RegisterParquetView(in.classification, where_condition, h) ]

\* what a run of the pipeline on chunk i of n can write
ChunkRun(in, n, i, h) == Pipeline(RestrictDataset(in, chunk_where("uprn", n, i).predicate, h))

\* the rows the inputs of SpecChunked are drawn from: a parent property and
\* its child
ChunkedUniverse ==
    { << "blpu", BlpuRow(1, Some("D"), Null) >>,
      << "blpu", BlpuRow(2, Some("D"), Some(1)) >>,
      << "lpi", LpiRow(1, 1, 1, << "A" >>, Null) >>,
      << "lpi", LpiRow(2, 2, 1, << "B" >>, Null) >>,
      << "street_descriptor", SdRow(1, "ENG", << "S" >>) >>,
      << "organisation", OrgRow(1, 1, << "C" >>, Null, Null) >>,
      << "delivery_point", DpRow(Some(2), Some(1), << "D" >>) >>,
      << "classification", ClsRow(1, "RD", ModernScheme) >> }

InitChunked ==
    /\ parquet \in Datasets(ChunkedUniverse)
    /\ NotInvoked
    /\ num_chunks \in 1..MaxChunks
    /\ chunk_id = 0
    /\ hash \in [ Uprns -> 0..MaxHash ]
    /\ called = Null
    /\ chunks = << >>
    /\ NoCall

\* the run with one chunk
RunUnchunked ==
    /\ output = Absent
    /\ \E res \in ChunkRun(parquet, 1, 0, hash) : output' = Complete(res)
    /\ UNCHANGED << parquet, files, outdir, pc, force, runs, con, views, macros, tables,
                    result, counts, ret, log, did, at_call, chunkVars >>

\* the run of the next chunk of num_chunks
RunChunk ==
    /\ output # Absent
    /\ chunk_id < num_chunks
    /\ called' = Some(chunk_where("uprn", num_chunks, chunk_id))
    /\ \E res \in ChunkRun(parquet, num_chunks, chunk_id, hash) : chunks' = Append(chunks, res)
    /\ chunk_id' = chunk_id + 1
    /\ UNCHANGED << runVars, num_chunks, hash, callVars >>

NextChunked ==
    \/ RunUnchunked
    \/ RunChunk

SpecChunked == InitChunked /\ [][NextChunked]_vars

\* C10 (chunk completeness), as claimed: the outputs of the four chunks of
\* a run with num_chunks = 4, put together, are the rows of the run with
\* one chunk, equal in every column.
C10_ChunkCompleteness ==
    (num_chunks = 4 /\ Len(chunks) = 4 /\ output.state = "complete")
    => UNION { chunks[i] : i \in 1..4 } = output.rows

----------------------------------------------------------------------------
(* SpecLevel: one invocation, up to the end of the Floor-Level generator,  *)
(* over name-location records of one property with every kind of level     *)

\* an invocation under way on a dataset of the universe, the six files in
\* place and no output yet
InvokedOn(universe) ==
    /\ parquet \in Datasets(universe)
    /\ files = RequiredSet
    /\ outdir = FALSE
    /\ output = Absent
    /\ pc = "assert_inputs"
    /\ force = FALSE
    /\ runs = 1
    /\ at_call = [ output |-> Absent, files |-> RequiredSet, outdir |-> FALSE ]
    /\ Idle
    /\ NoChunks

\* the levels of the records of LevelUniverse, by lpi_key
Levels ==
    << Null,
       Some(<< "-", "1" >>), Some(<< "0" >>), Some(<< "1" >>), Some(<< "2" >>),
       Some(<< "3" >>), Some(<< "4" >>), Some(<< "5" >>), Some(<< "6" >>),
       Some(<< "7" >>), Some(<< "-", "2" >>), Some(<< "A", "B", "C" >>),
       Some(<< "1", ",", "2" >>), Some(<< "0", "1" >>), Some(<< >>),
       Some(<< "1", " " >>),
       Some(<< "2", "1", "4", "7", "4", "8", "3", "6", "4", "7" >>),
       Some(<< "2", "1", "4", "7", "4", "8", "3", "6", "4", "8" >>) >>

LevelUniverse ==
    { << "blpu", BlpuRow(1, Some("D"), Null) >>,
      << "lpi", LpiRow(Len(Levels) + 1, 1, 1, << >>, Some(<< "1" >>)) >> }
    \cup { << "lpi", LpiRow(k, 1, 1, << "A" >>, Levels[k]) >> : k \in 1..Len(Levels) }

InitLevel == InvokedOn(LevelUniverse)

NextLevel ==
    \/ AssertInputsOk
    \/ Proceed
    \/ Mkdir
    \/ Connect
    \/ RegisterViews
    \/ CreateMacros
    \/ PrepareStreetDescriptorViews
    \/ PrepareLpiBase
    \/ PrepareDeliveryPointBest
    \/ PrepareClassificationBest
    \/ RenderLpi
    \/ RenderBusiness
    \/ RenderDeliveryPoint
    \/ RenderCustomLevel
    \/ RenderCustomLevelFails

SpecLevel == InitLevel /\ [][NextLevel]_vars

\* -1 BASEMENT, 0 GROUND, 1 FIRST, ... 6 SIXTH
FloorWords ==
    << << "B", "A", "S", "E", "M", "E", "N", "T" >>, << "G", "R", "O", "U", "N", "D" >>,
       << "F", "I", "R", "S", "T" >>, << "S", "E", "C", "O", "N", "D" >>,
       << "T", "H", "I", "R", "D" >>, << "F", "O", "U", "R", "T", "H" >>,
       << "F", "I", "F", "T", "H" >>, << "S", "I", "X", "T", "H" >> >>

\* the integer in [-1, 6] that the leading token of a level denotes, if any
FloorOf(level) ==
    IF level = Null THEN Null
    ELSE LET token == SplitPart1(Val(level))
         IN  IF ~IsIntegerToken(token) THEN Null
             ELSE LET negative == Head(token) = "-"
                      mag == StripZeros(IF negative THEN Tail(token) ELSE token)
                      n   == IF mag = << >> THEN 0 ELSE DigitValue(mag[1])
                      v   == IF negative THEN 0 - n ELSE n
                  IN  IF Len(mag) <= 1 /\ v >= 0 - 1 /\ v <= 6 THEN Some(v) ELSE Null

\* the Floor-Level variants of the record f among the rows of a stage
FloorVariantsOf(stage, f) == { v \in stage : v.rid = << "CUSTOM_LEVEL", f.lpi_key >> }

\* the stage holds, for each record with a base address, the variant of its
\* floor and no other
LevelMappingExact(stage, lpi_base_full) ==
    \A f \in lpi_base_full :
        NonEmpty(f.base_address) =>
            IF FloorOf(f.level) = Null THEN FloorVariantsOf(stage, f) = {}
            ELSE \E v \in stage :
                    /\ FloorVariantsOf(stage, f) = {v}
                    /\ v.uprn = f.uprn
                    /\ v.source = "CUSTOM_LEVEL"
                    /\ v.raw_address =
                         Some(FloorWords[Val(FloorOf(f.level)) + 2] \o << " " >>
                              \o Val(f.base_address))

\* C11 (level mapping exactness), as claimed: the Floor-Level generator
\* fails on no level, and the stage it writes holds, for every record of the
\* full relation with a non-empty base address, a variant iff the leading
\* integer token of its level is in [-1, 6], the address being the word of
\* that floor, one space, and the base address.
C11_LevelMappingExact ==
    /\ ret.what # "ConversionException"
    /\ ("_stage_custom_level_variants" \in DOMAIN tables)
       => LevelMappingExact(tables["_stage_custom_level_variants"], tables["lpi_base_full"])

----------------------------------------------------------------------------
(* SpecComponent: build_component applied once to every combination of a   *)
(* text, a start number and suffix, an end number and suffix               *)

ComponentTexts ==
    { Null, Some(<< >>), Some(<< "A" >>), Some(<< "F", "L", "A", "T", " ", "A" >>),
      Some(<< " ", "A" >>) }

ComponentNumbers == { Null, Some(1), Some(10), Some(12) }

ComponentSuffixes == { Null, Some(<< >>), Some(<< "B" >>) }

\* nothing but the call is going on
OnlyCalls ==
    /\ parquet = Dataset({})
    /\ NotInvoked
    /\ num_chunks = 0
    /\ chunk_id = 0
    /\ hash = [ u \in Uprns |-> 0 ]
    /\ called = Null
    /\ chunks = << >>

InitComponent ==
    /\ OnlyCalls
    /\ fn = "none"
    /\ args \in ComponentTexts \X ComponentNumbers \X ComponentSuffixes
                \X ComponentNumbers \X ComponentSuffixes
    /\ value = Null

\* SELECT build_component(text, start, start_suffix, end, end_suffix)
CallBuildComponent ==
    /\ fn = "none"
    /\ fn' = "build_component"
    /\ value' = build_component(args[1], args[2], args[3], args[4], args[5])
    /\ UNCHANGED << runVars, num_chunks, chunk_id, hash, called, chunks, args >>

NextComponent == CallBuildComponent

SpecComponent == InitComponent /\ [][NextComponent]_vars

\* a suffix as text: nothing when it is not set
SuffixText(suffix) == IF suffix = Null THEN << >> ELSE Val(suffix)

\* the parts of a component, those that are empty left out
ComponentParts(text, start, start_suffix, end, end_suffix) ==
    LET text_part == IF text = Null \/ text = Some(<< >>) THEN << >> ELSE << Val(text) >>
        number_part ==
            IF start = Null THEN << >>
            ELSE IF end = Null THEN << Val(IntStr(start)) \o SuffixText(start_suffix) >>
            ELSE << Val(IntStr(start)) \o SuffixText(start_suffix) \o << "-" >>
                    \o Val(IntStr(end)) \o SuffixText(end_suffix) >>
    IN  text_part \o number_part

\* C12 (component rendering): build_component returns its non-empty parts
\* joined by single spaces and trimmed: the text if not empty, then
\* start+suffix when there is a start and no end, or
\* start+suffix-end+suffix when there are both; no number without a start.
C12_ComponentRendering ==
    fn = "build_component" =>
        value = TRIM(Some(JoinStr(ComponentParts(args[1], args[2], args[3], args[4], args[5]),
                                  << " " >>)))

\* the case of C12: "FLAT A" with start 10, suffix B, and end 12 has been
\* rendered "FLAT A 10B-12"
C12_Witness ==
    /\ fn = "build_component"
    /\ args = << Some(<< "F", "L", "A", "T", " ", "A" >>), Some(10), Some(<< "B" >>),
                 Some(12), Null >>
    /\ value = Some(<< "F", "L", "A", "T", " ", "A", " ", "1", "0", "B", "-", "1", "2" >>)

----------------------------------------------------------------------------
(* SpecBusiness: one invocation, up to the end of the business generator,  *)
(* over one property with dated base-address snapshots and occupants       *)

\* a name-location record with its dates
Snapshot(key, status, text, start, end, updated) ==
    [ LpiRow(key, 1, status, text, Null) EXCEPT
        !.start_date = start, !.end_date = end, !.last_update_date = updated ]

BusinessUniverse ==
    { << "blpu", BlpuRow(1, Some("D"), Null) >>,
      << "lpi", Snapshot(1, 1, << "A" >>, Some(7), Null, Some(9)) >>,
      << "lpi", Snapshot(2, 8, << "B" >>, Some(1), Some(6), Some(2)) >>,
      << "lpi", Snapshot(3, 3, << "C" >>, Null, Some(3), Some(2)) >>,
      << "lpi", Snapshot(4, 8, << "D" >>, Some(4), Some(8), Null) >>,
      << "organisation", OrgRow(1, 1, << "X" >>, Some(2), Some(5)) >>,
      << "organisation", OrgRow(2, 1, << "Y" >>, Null, Some(5)) >>,
      << "organisation", OrgRow(3, 1, << "Z" >>, Some(8), Some(9)) >>,
      << "organisation", OrgRow(4, 1, << "W" >>, Some(8), Null) >> }

InitBusiness == InvokedOn(BusinessUniverse)

NextBusiness ==
    \/ AssertInputsOk
    \/ Proceed
    \/ Mkdir
    \/ Connect
    \/ RegisterViews
    \/ CreateMacros
    \/ PrepareStreetDescriptorViews
    \/ PrepareLpiBase
    \/ PrepareDeliveryPointBest
    \/ PrepareClassificationBest
    \/ RenderLpi
    \/ RenderBusiness

SpecBusiness == InitBusiness /\ [][NextBusiness]_vars

\* the validity intervals of an occupant with an end date and of a snapshot
\* intersect, a bound that is not set being no bound
Intersects(oc, lb) ==
    /\ (lb.start_date = Null \/ Val(oc.end_date) >= Val(lb.start_date))
    /\ (lb.end_date = Null \/ oc.start_date = Null
        \/ Val(oc.start_date) <= Val(lb.end_date))

\* the historical candidates of the input whose property has a snapshot
HistoricalWithSnapshot ==
    { oc \in OrganisationCandidates(parquet.organisation) :
        /\ oc.end_date # Null
        /\ \E lb \in tables["lpi_base_distinct"] : lb.uprn = oc.uprn }

\* the snapshots of the candidate's property
SnapshotsOf(oc) == { lb \in tables["lpi_base_distinct"] : lb.uprn = oc.uprn }

\* the stage's variants of a candidate
BusinessVariantsOf(oc) == { v \in tables["_stage_business_variants"] : v.rid = oc.rid }

\* the variant of a candidate is the one rendered from a snapshot of the set
RenderedFrom(oc, snapshots) ==
    \E lb \in snapshots :
        BusinessVariantsOf(oc) =
            { BusinessVariant(oc, lb, "BUSINESS_HISTORICAL", "BUSINESS_HISTORICAL_LEGAL") }

\* C13 (business temporal match), as claimed: in the stage of the business
\* generator every historical candidate of a property with a snapshot has
\* exactly one variant, and when some snapshot of the property overlaps the
\* occupant's interval the variant is rendered from an overlapping one.
C13_TemporalMatch ==
    ("_stage_business_variants" \in DOMAIN tables) =>
        \A oc \in HistoricalWithSnapshot :
            /\ Cardinality(BusinessVariantsOf(oc)) = 1
            /\ (\E lb \in SnapshotsOf(oc) : Intersects(oc, lb))
               => RenderedFrom(oc, { lb \in SnapshotsOf(oc) : Intersects(oc, lb) })

\* the order of the snapshots for a candidate when overlap is the
\* intersection of the intervals, bounds that are not set being no bounds
UnboundedKey(oc, lb) ==
    << IF Intersects(oc, lb) THEN 0 ELSE 1, lb.status_rank,
       0 - Val(COALESCE(lb.last_update_date, Some(Epoch))) >>

\* C15 (null bounds), as claimed: the snapshot a historical candidate is
\* rendered from is a first one in the order (overlap, status_rank, most
\* recent update) where a snapshot overlaps iff the intervals intersect
\* with every null bound, the occupant's start date included, read as
\* unbounded.
C15_NullBoundsUnbounded ==
    ("_stage_business_variants" \in DOMAIN tables) =>
        \A oc \in HistoricalWithSnapshot :
            RenderedFrom(oc, { lb \in SnapshotsOf(oc) :
                                 \A other \in SnapshotsOf(oc) :
                                     ~LexLess(UnboundedKey(oc, other), UnboundedKey(oc, lb)) })

----------------------------------------------------------------------------
(* SpecTies: one whole invocation over records that tie on every ordering  *)
(* key of a selection: two street descriptors of one street and language,  *)
(* two delivery points and two classifications of one property             *)

TiesUniverse ==
    { << "blpu", BlpuRow(1, Some("D"), Null) >>,
      << "lpi", LpiRow(1, 1, 1, << "A" >>, Null) >>,
      << "street_descriptor", SdRow(1, "ENG", << "S" >>) >>,
      << "street_descriptor", SdRow(1, "ENG", << "T" >>) >>,
      << "delivery_point", DpRow(Some(1), Some(1), << "B" >>) >>,
      << "delivery_point", DpRow(Some(1), Some(2), << "B" >>) >>,
      << "delivery_point", DpRow(Some(2), Some(3), << "A" >>) >>,
      << "classification", ClsRow(1, "RD", ModernScheme) >>,
      << "classification", ClsRow(1, "CO", ModernScheme) >> }

InitTies == InvokedOn(TiesUniverse)

SpecTies == InitTies /\ [][Next]_vars

\* C14 (determinism), as claimed: the file an invocation has written is the
\* one output the pipeline has on these inputs; any other run on the same
\* inputs writes the same rows, ties included.
C14_Determinism ==
    output.state = "complete" => Pipeline(parquet) = { output.rows }

----------------------------------------------------------------------------
(* SpecStreet: one invocation, up to the end of _prepare_lpi_base, over     *)
(* records of two languages on one street and descriptors that leave       *)
(* fields unset                                                            *)

\* a street descriptor with its locality, town and date of last update
Descriptor(language, street, locality, town, updated) ==
    [ SdRow(1, language, street) EXCEPT
        !.locality = locality, !.town_name = town, !.last_update_date = updated ]

\* a name-location record in a language
LpiIn(key, language) == [ LpiRow(key, 1, 1, << "A" >>, Null) EXCEPT !.language = language ]

StreetUniverse ==
    { << "blpu", BlpuRow(1, Some("D"), Null) >>,
      << "lpi", LpiIn(1, Some("ENG")) >>,
      << "lpi", LpiIn(2, Some("CYM")) >>,
      << "lpi", LpiIn(3, Null) >>,
      << "street_descriptor", Descriptor("ENG", << "S" >>, Null, Null, Some(1)) >>,
      << "street_descriptor", Descriptor("ENG", << "R" >>, Some(<< "K" >>), Null, Some(2)) >>,
      << "street_descriptor",
         Descriptor("CYM", << "T" >>, Some(<< "L" >>), Some(<< "W" >>), Some(3)) >> }

InitStreet == InvokedOn(StreetUniverse)

NextStreet ==
    \/ AssertInputsOk
    \/ Proceed
    \/ Mkdir
    \/ Connect
    \/ RegisterViews
    \/ CreateMacros
    \/ PrepareStreetDescriptorViews
    \/ PrepareLpiBase

SpecStreet == InitStreet /\ [][NextStreet]_vars

\* the freshest descriptors of a set: latest end date, one not set being the
\* latest, then latest update
Freshest(descriptors) ==
    { sd \in descriptors :
        \A other \in descriptors : ~LexLess(RecencyKey(other), RecencyKey(sd)) }

\* the three street fields of a row of the full relation are those of sd
StreetFieldsFrom(f, sd) ==
    /\ f.street_description = sd.street_description
    /\ f.locality_name = sd.locality
    /\ f.town_name = sd.town_name

\* C16 (street descriptor fallback), as claimed: for every record of the
\* full relation, when the street of the record has a descriptor in the
\* record's language, street name, locality and town are all those of the
\* freshest such descriptor; otherwise they are those of the freshest
\* descriptor of the street in any language, or unset when it has none.
C16_StreetFallback ==
    ("lpi_base_full" \in DOMAIN tables) =>
        \A f \in tables["lpi_base_full"] :
            \A l \in { x \in parquet.lpi : x.lpi_key = f.lpi_key } :
                LET any  == { sd \in parquet.street_descriptor : SqlEq(sd.usrn, l.usrn) }
                    same == { sd \in any : SqlEq(sd.language, l.language) }
                IN  IF same # {} THEN \E sd \in Freshest(same) : StreetFieldsFrom(f, sd)
                    ELSE IF any # {} THEN \E sd \in Freshest(any) : StreetFieldsFrom(f, sd)
                    ELSE StreetFieldsFrom(f, NullSd)


----------------------------------------------------------------------------
(* The Combiner's re-assignment of is_primary, under Spec *)

\* Of the four stages only _render_lpi_variants sets is_primary, to
\* logical_status = 1, and the Combiner carries source and logical_status
\* through unchanged: a row of the final relation had is_primary = true
\* before the re-assignment iff it is an Approved Official row.
WasPrimary(r) == r.source = "LPI" /\ IsApproved(r.logical_status)

\* the rows of property u that the re-assignment turned into primaries
Promoted(res, u) == { r \in res : r.uprn = u /\ r.is_primary /\ ~WasPrimary(r) }

\* C17 (fallback promotion condition), amended: the fallback marks a
\* non-primary row of a property as primary only if no surviving row of the
\* property has is_primary = true, that is, only if no Approved Official row
\* of the property survives deduplication. A surviving Official row of
\* another logical status does not prevent the promotion.
C17_FallbackOnlyWithoutPrimary ==
    result =>
        \A res \in ResultEvaluations :
            \A r \in res :
                Promoted(res, r.uprn) # {} => ~ \E x \in res : x.uprn = r.uprn /\ WasPrimary(x)

\* the case of C17: a property whose only Official rows are not Approved; one
\* of them survives deduplication and is the row the fallback promotes
C17_Witness ==
    /\ result
    /\ \E res \in ResultEvaluations :
          \E r \in res :
              /\ r \in Promoted(res, r.uprn)
              /\ r.source = "LPI"
              /\ \E x \in res : x.uprn = r.uprn /\ x # r /\ ~x.is_primary

\* C17 as claimed: a property with a surviving Official row, of any logical
\* status, never has a row promoted by the fallback.
C17_FallbackOnlyWithoutOfficial ==
    result =>
        \A res \in ResultEvaluations :
            \A r \in res :
                Promoted(res, r.uprn) # {} => ~ \E x \in res : x.uprn = r.uprn /\ x.source = "LPI"


\* a comes before b in the order (source_rank ascending, variant label,
\* normalized address)
ReassignBefore(a, b) ==
    \/ SourceRank(a.source) < SourceRank(b.source)
    \/ /\ SourceRank(a.source) = SourceRank(b.source)
       /\ \/ LabelOrd(a.variant_label) < LabelOrd(b.variant_label)
          \/ /\ a.variant_label = b.variant_label
             /\ NStrLess(a.address_concat, b.address_concat)

\* C18 (primary re-assignment): for every property, if a surviving row had
\* is_primary = true, every surviving row of the property keeps its flag;
\* otherwise exactly one surviving row of the property is primary, the one
\* that comes before all the others in the order (source_rank, variant
\* label, normalized address).
C18_PrimaryReassignment ==
    result =>
        \A res \in ResultEvaluations :
            \A r \in res :
                LET rows == { x \in res : x.uprn = r.uprn }
                IN  IF \E x \in rows : WasPrimary(x)
                    THEN \A x \in rows : x.is_primary = WasPrimary(x)
                    ELSE \E f \in rows :
                            /\ f.is_primary
                            /\ \A x \in rows \ {f} : ~x.is_primary /\ ReassignBefore(f, x)

\* the case of C18: a property without a primary row and with an Official and
\* a Postal row, where the Official row is promoted although the Postal
\* address sorts before it
C18_Witness ==
    /\ result
    /\ \E res \in ResultEvaluations :
          \E f \in res, x \in res :
              /\ f.uprn = x.uprn
              /\ f.source = "LPI" /\ ~WasPrimary(f) /\ f.is_primary
              /\ x.source = "DELIVERY_POINT" /\ ~x.is_primary
              /\ NStrLess(x.address_concat, f.address_concat)


----------------------------------------------------------------------------
(* The Combiner's deduplication, under Spec *)

\* the ranks as the claim C19 states them
ClaimedSourceRank(source) ==
    CASE source = "LPI" -> 0
      [] source = "ORGANISATION" -> 1
      [] source = "DELIVERY_POINT" -> 2
      [] source = "CUSTOM_LEVEL" -> 3
      [] OTHER -> 4

ClaimedStatusRank(logical_status) ==
    CASE logical_status = Some(1) -> 0
      [] logical_status = Some(3) -> 1
      [] logical_status = Some(6) -> 2
      [] logical_status = Some(8) -> 3
      [] OTHER -> 9

\* the key (is_primary descending, status_rank, source_rank, variant label,
\* source) of a combined row
ClaimedKey(v) ==
    << IF v.is_primary THEN 0 ELSE 1, ClaimedStatusRank(v.logical_status),
       ClaimedSourceRank(v.source), LabelOrd(v.variant_label), SourceOrd(v.source) >>

\* the combined rows with their normalized address, as the Combiner sees them
CombinedRows ==
    { Ranked(v) : v \in RawAddressVariants(tables["_stage_lpi_variants"],
                                           tables["_stage_business_variants"],
                                           tables["_stage_delivery_point_variants"],
                                           tables["_stage_custom_level_variants"]) }

\* the output row r is the combined row m, carried through (is_primary is
\* re-assigned afterwards and is left out)
Carries(r, m) ==
    /\ r.uprn = m.uprn
    /\ r.address_concat = m.address_concat
    /\ r.postcode = m.postcode
    /\ r.source = m.source
    /\ r.logical_status = m.logical_status
    /\ r.blpu_state = m.blpu_state
    /\ r.postal_address_code = m.postal_address_code
    /\ r.parent_uprn = m.parent_uprn
    /\ r.hierarchy_level = m.hierarchy_level
    /\ r.variant_label = m.variant_label

\* C19 (dedup winner): for every group of combined rows with the same
\* property id and normalized address, exactly one row of the final relation
\* has that property id and address, and it is a row of the group that no
\* other row of the group precedes under the key (is_primary descending,
\* status_rank, source_rank, variant label, source).
C19_DedupWinner ==
    result =>
        \A res \in ResultEvaluations :
            \A g \in CombinedRows :
                LET group == { x \in CombinedRows :
                                 x.uprn = g.uprn /\ x.address_concat = g.address_concat }
                    kept  == { r \in res :
                                 r.uprn = g.uprn /\ r.address_concat = g.address_concat }
                IN  /\ Cardinality(kept) = 1
                    /\ \A r \in kept :
                          \E m \in group :
                              /\ Carries(r, m)
                              /\ \A x \in group : ~LexLess(ClaimedKey(x), ClaimedKey(m))

\* the case of C19: an Occupant row that inherited the Approved status and a
\* Historical Official row of the same property have the same normalized
\* address; neither is primary, and the Occupant row, of the better status
\* but the worse source, is the one kept
C19_Witness ==
    /\ result
    /\ \E a \in CombinedRows, b \in CombinedRows :
          /\ a.uprn = b.uprn /\ a.address_concat = b.address_concat
          /\ a.source = "ORGANISATION" /\ b.source = "LPI"
          /\ ~a.is_primary /\ ~b.is_primary
          /\ ClaimedStatusRank(a.logical_status) < ClaimedStatusRank(b.logical_status)
          /\ \E res \in ResultEvaluations : \E r \in res : Carries(r, a)


----------------------------------------------------------------------------
(* SpecAddress: one whole invocation over records whose texts hold         *)
(* apostrophes and runs of whitespace, at one place or at several          *)

AddressUniverse ==
    { << "blpu", BlpuRow(1, Some("D"), Null) >>,
      << "lpi", LpiRow(1, 1, 1, << "A", "'", "'", "B" >>, Null) >>,
      << "lpi", LpiRow(2, 1, 1, << "A", " ", " ", "B" >>, Null) >>,
      << "lpi", LpiRow(3, 1, 3, << "A", " ", "B", " ", " ", "C" >>, Null) >>,
      << "lpi", LpiRow(4, 1, 8, << "A", "\t", " ", "B", " ", "'", " ", "C" >>, Null) >>,
      << "street_descriptor", SdRow(1, "ENG", << "S", "'", " ", " ", "T" >>) >>,
      << "delivery_point", DpRow(Some(1), Some(1), << "B", " ", "\t", "C", "'" >>) >>,
      << "delivery_point", DpRow(Some(2), Some(2), << "A" >>) >> }

InitAddress == InvokedOn(AddressUniverse)

SpecAddress == InitAddress /\ [][Next]_vars

HasNoApostrophe(s) == \A i \in 1..Len(s) : s[i] # "'"

HasNoWhitespaceRun(s) == \A i \in 1..(Len(s) - 1) : ~(IsSpace(s[i]) /\ IsSpace(s[i + 1]))

\* C20 (normalization), as claimed: every address string of the file written
\* has no apostrophe and no run of two or more whitespace characters, and
\* normalizing it again leaves it unchanged.
C20_Normalization ==
    output.state = "complete" =>
        \A r \in output.rows :
            r.address_concat # Null =>
                /\ HasNoApostrophe(Val(r.address_concat))
                /\ HasNoWhitespaceRun(Val(r.address_concat))
                /\ NormalizeAddress(r.address_concat) = r.address_concat


----------------------------------------------------------------------------
(* SpecBase: one whole invocation over name-location records of every      *)
(* logical status, allowed or not, of properties that are postal, non      *)
(* postal or of unknown applicability, with parents and children, and over *)
(* occupants and a delivery point of these properties                      *)

\* a name-location record with a nullable status and a date of last update
LpiAt(key, u, status, text, updated) ==
    [ LpiRow(key, u, 1, text, Null) EXCEPT
        !.logical_status = status, !.last_update_date = updated ]

BaseUniverse ==
    { << "blpu", BlpuRow(1, Some("D"), Null) >>,
      << "blpu", BlpuRow(2, Some("N"), Null) >>,
      << "blpu", BlpuRow(3, Null, Some(1)) >>,
      << "blpu", BlpuRow(4, Some("D"), Some(3)) >>,
      << "lpi", LpiAt(1, 1, Some(1), << "A" >>, Null) >>,
      << "lpi", LpiAt(2, 1, Some(6), << "C" >>, Some(5)) >>,
      << "lpi", LpiAt(3, 1, Some(7), << "E" >>, Null) >>,
      << "lpi", LpiAt(4, 1, Null, << "F" >>, Null) >>,
      << "lpi", LpiAt(5, 2, Some(1), << "A" >>, Null) >>,
      << "lpi", LpiAt(6, 3, Some(3), << "A" >>, Null) >>,
      << "lpi", LpiAt(7, 3, Some(3), << "B" >>, Some(2)) >>,
      << "lpi", LpiAt(8, 3, Some(6), << "C" >>, Some(5)) >>,
      << "lpi", LpiAt(9, 3, Some(8), << "D" >>, Some(7)) >>,
      << "lpi", LpiAt(10, 4, Some(8), << "D" >>, Null) >>,
      << "organisation", OrgRow(1, 3, << "O" >>, Null, Null) >>,
      << "organisation", OrgRow(2, 4, << "O" >>, Null, Null) >>,
      << "organisation", OrgRow(3, 1, << "O" >>, Null, Null) >>,
      << "delivery_point", DpRow(Some(2), Some(1), << "A" >>) >>,
      << "delivery_point", DpRow(Some(1), Some(2), << "A" >>) >> }

InitBase == InvokedOn(BaseUniverse)

SpecBase == InitBase /\ [][Next]_vars

\* the label the claim C21 gives a logical status
ClaimedLabel(logical_status) ==
    CASE logical_status = Some(1) -> Some("APPROVED")
      [] logical_status = Some(3) -> Some("ALTERNATIVE")
      [] logical_status = Some(6) -> Some("PROVISIONAL")
      [] logical_status = Some(8) -> Some("HISTORICAL")
      [] OTHER -> Null

\* the variant v carries the columns of the distinct row d
VariantOf(v, d) ==
    /\ v.uprn = d.uprn
    /\ v.postcode = d.postcode
    /\ v.raw_address = d.base_address
    /\ v.logical_status = d.logical_status
    /\ v.official_flag = d.official_flag
    /\ v.blpu_state = d.blpu_state
    /\ v.postal_address_code = d.postal_address_code
    /\ v.parent_uprn = d.parent_uprn
    /\ v.hierarchy_level = d.hierarchy_level

OtherStages ==
    { "_stage_business_variants", "_stage_delivery_point_variants",
      "_stage_custom_level_variants" }

\* C21 (Official generator): _stage_lpi_variants has as many rows as
\* lpi_base_distinct, one for each of its rows; each has source Official, the
\* label of its logical status (APPROVED, ALTERNATIVE, PROVISIONAL or
\* HISTORICAL, never null) and is_primary = true iff the status is Approved;
\* every row of the three other stage tables has is_primary = false.
C21_OfficialGenerator ==
    /\ ("_stage_lpi_variants" \in DOMAIN tables) =>
          LET stage == tables["_stage_lpi_variants"]
              distinct == tables["lpi_base_distinct"]
          IN  /\ Cardinality(stage) = Cardinality(distinct)
              /\ \A d \in distinct : \E v \in stage : VariantOf(v, d)
              /\ \A v \in stage :
                    /\ \E d \in distinct : VariantOf(v, d)
                    /\ v.source = "LPI"
                    /\ v.variant_label # Null
                    /\ v.variant_label = ClaimedLabel(v.logical_status)
                    /\ v.is_primary = (v.logical_status = Some(1))
    /\ \A name \in OtherStages \cap DOMAIN tables : \A v \in tables[name] : ~v.is_primary

\* the case of C21: an Approved and a Provisional record of one property
\* were rendered, and the other stages rendered an Occupant and a Postal row
C21_Witness ==
    /\ OtherStages \subseteq DOMAIN tables
    /\ \E a \in tables["_stage_lpi_variants"], b \in tables["_stage_lpi_variants"] :
          /\ a.is_primary /\ a.variant_label = Some("APPROVED")
          /\ ~b.is_primary /\ b.variant_label = Some("PROVISIONAL")
    /\ tables["_stage_business_variants"] # {}
    /\ tables["_stage_delivery_point_variants"] # {}


\* the date of last update, null as the epoch
UpdatedOrEpoch(d) == IF IsNull(d.last_update_date) THEN Epoch ELSE Val(d.last_update_date)

\* x comes before d in the order (status_rank ascending, last-update date
\* descending)
CurrentBefore(x, d) ==
    \/ ClaimedStatusRank(x.logical_status) < ClaimedStatusRank(d.logical_status)
    \/ /\ ClaimedStatusRank(x.logical_status) = ClaimedStatusRank(d.logical_status)
       /\ UpdatedOrEpoch(x) > UpdatedOrEpoch(d)

\* the distinct rows of property u that are Approved, Alternative or Provisional
CurrentRows(u) ==
    { d \in tables["lpi_base_distinct"] :
        d.uprn = u /\ d.logical_status \in { Some(1), Some(3), Some(6) } }

\* C22 (current-best selection): lpi_best_current has at most one row per
\* property, never a Historical one; the row is one of the property's
\* distinct rows of status Approved, Alternative or Provisional that none of
\* the others precedes in the order (status_rank ascending, last-update date
\* descending, null as epoch), and a property with such rows has one. Each
\* occupant candidate with a null end date yields at most one variant, and
\* none when its property has only Historical base addresses.
C22_CurrentBest ==
    /\ ("lpi_best_current" \in DOMAIN tables) =>
          LET best == tables["lpi_best_current"]
          IN  /\ \A a \in best, b \in best : a.uprn = b.uprn => a = b
              /\ \A b \in best :
                    /\ b.logical_status # Some(8)
                    /\ \E d \in CurrentRows(b.uprn) :
                          /\ BestCurrentColumns(d) = b
                          /\ \A x \in CurrentRows(b.uprn) : ~CurrentBefore(x, d)
              /\ \A d \in tables["lpi_base_distinct"] :
                    CurrentRows(d.uprn) # {} => \E b \in best : b.uprn = d.uprn
    /\ ("_stage_business_variants" \in DOMAIN tables) =>
          \A c \in OrganisationCandidates(parquet.organisation) :
              IsNull(c.end_date) =>
                  LET variants == { v \in tables["_stage_business_variants"] : v.rid = c.rid }
                  IN  /\ Cardinality(variants) <= 1
                      /\ CurrentRows(c.uprn) = {} => variants = {}

\* the case of C22: a property with two Alternative rows, one of them with
\* no date of last update, and a Provisional row updated after both; the
\* dated Alternative row is the current best, and the property's current
\* occupant got its one variant from it
C22_Witness ==
    /\ "_stage_business_variants" \in DOMAIN tables
    /\ \E b \in tables["lpi_best_current"] :
          /\ b.logical_status = Some(3) /\ b.last_update_date # Null
          /\ \E x \in CurrentRows(b.uprn) :
                x.logical_status = Some(3) /\ IsNull(x.last_update_date)
          /\ \E y \in CurrentRows(b.uprn) :
                y.logical_status = Some(6) /\ UpdatedOrEpoch(y) > UpdatedOrEpoch(b)
          /\ \E v \in tables["_stage_business_variants"] :
                v.uprn = b.uprn /\ v.variant_label = Some("BUSINESS_CURRENT")


----------------------------------------------------------------------------
(* SpecClassification: one invocation, up to the end of                    *)
(* _prepare_classification_best, over classification records of the modern *)
(* scheme, of another scheme and of no scheme, with and without dates      *)

\* a classification record with its scheme, end date and date of last update
ClsAt(u, code, scheme, end, updated) ==
    [ ClsRow(u, code, ModernScheme) EXCEPT
        !.class_scheme = scheme, !.end_date = end, !.last_update_date = updated ]

OldScheme == "Valuation Office Agency"

ClassificationUniverse ==
    { << "blpu", BlpuRow(1, Some("D"), Null) >>,
      << "classification", ClsAt(1, "RD", Some(ModernScheme), Some(3), Some(1)) >>,
      << "classification", ClsAt(1, "RH", Some(ModernScheme), Null, Some(1)) >>,
      << "classification", ClsAt(1, "RI", Some(ModernScheme), Null, Some(4)) >>,
      << "classification", ClsAt(1, "CO", Some(OldScheme), Null, Some(9)) >>,
      << "classification", ClsAt(1, "CR", Null, Null, Some(9)) >>,
      << "classification", ClsAt(2, "CO", Some(OldScheme), Some(5), Null) >>,
      << "classification", ClsAt(2, "CR", Some(OldScheme), Some(5), Some(2)) >>,
      << "classification", ClsAt(2, "CS", Some(OldScheme), Some(4), Some(8)) >> }

InitClassification == InvokedOn(ClassificationUniverse)

NextClassification ==
    \/ AssertInputsOk
    \/ Proceed
    \/ Mkdir
    \/ Connect
    \/ RegisterViews
    \/ CreateMacros
    \/ PrepareStreetDescriptorViews
    \/ PrepareLpiBase
    \/ PrepareDeliveryPointBest
    \/ PrepareClassificationBest

SpecClassification == InitClassification /\ [][NextClassification]_vars

IsModern(c) == c.class_scheme = Some(ModernScheme)

\* the end date, null as the infinite future
EndOrFuture(c) == IF IsNull(c.end_date) THEN FarFuture ELSE Val(c.end_date)

\* x is preferred to c: the modern scheme first, then the later end date,
\* then the later date of last update
ClassificationBefore(x, c) ==
    \/ IsModern(x) /\ ~IsModern(c)
    \/ /\ IsModern(x) = IsModern(c)
       /\ \/ EndOrFuture(x) > EndOrFuture(c)
          \/ EndOrFuture(x) = EndOrFuture(c) /\ UpdatedOrEpoch(x) > UpdatedOrEpoch(c)

\* C23 (classification resolver): classification_best has exactly one row
\* for every property id of the classification table; it is a record of the
\* modern scheme whenever the property has one, whatever the dates of its
\* other records, and it is a record that no other record of the property is
\* preferred to (scheme, then end date with null as infinite future, then
\* last-update date with null as epoch).
C23_ClassificationResolver ==
    ("classification_best" \in DOMAIN tables) =>
        \A u \in { c.uprn : c \in parquet.classification } :
            LET mine == { c \in parquet.classification : c.uprn = u }
                best == { b \in tables["classification_best"] : b.uprn = u }
            IN  /\ Cardinality(best) = 1
                /\ \A b \in best :
                      /\ (\E x \in mine : IsModern(x)) => b.class_scheme = Some(ModernScheme)
                      /\ \E c \in mine :
                            /\ b.classification_code = c.classification_code
                            /\ b.class_scheme = c.class_scheme
                            /\ \A x \in mine : ~ClassificationBefore(x, c)

\* the case of C23: a property with a modern record and a record of another
\* scheme that was updated later; the modern record is the one kept
C23_Witness ==
    /\ "classification_best" \in DOMAIN tables
    /\ \E b \in tables["classification_best"] :
          /\ b.class_scheme = Some(ModernScheme)
          /\ \E m \in parquet.classification, o \in parquet.classification :
                /\ m.uprn = b.uprn /\ o.uprn = b.uprn
                /\ m.classification_code = b.classification_code
                /\ o.class_scheme = Some(OldScheme)
                /\ UpdatedOrEpoch(o) > UpdatedOrEpoch(m)


----------------------------------------------------------------------------
(* The base-address relations, under SpecBase *)

HasParent(u) == \E b \in parquet.blpu : b.uprn = u /\ b.parent_uprn # Null

HasChildren(u) == \E b \in parquet.blpu : b.parent_uprn = u

\* C24 (hierarchy level): every row of lpi_base_full has hierarchy_level 'C'
\* (Child), 'P' (Parent) or 'S' (Standalone): Child iff its property has a
\* parent id, Parent iff it has none and some property declares it as
\* parent, Standalone otherwise; the rows of one property carry one level.
C24_HierarchyLevel ==
    ("lpi_base_full" \in DOMAIN tables) =>
        /\ \A f \in tables["lpi_base_full"] :
              /\ f.hierarchy_level \in { Some("C"), Some("P"), Some("S") }
              /\ f.hierarchy_level = Some("C") <=> HasParent(f.uprn)
              /\ f.hierarchy_level = Some("P") <=> (~HasParent(f.uprn) /\ HasChildren(f.uprn))
        /\ \A f \in tables["lpi_base_full"], g \in tables["lpi_base_full"] :
              f.uprn = g.uprn => f.hierarchy_level = g.hierarchy_level

\* the case of C24: a Parent property, and a Child property that is itself
\* declared as parent by another property
C24_Witness ==
    /\ "lpi_base_full" \in DOMAIN tables
    /\ \E f \in tables["lpi_base_full"], g \in tables["lpi_base_full"] :
          /\ f.hierarchy_level = Some("P")
          /\ g.hierarchy_level = Some("C") /\ HasChildren(g.uprn)


\* the postal-applicability flags of property u
PostalFlags(u) == { b.addressbase_postal : b \in { x \in parquet.blpu : x.uprn = u } }

FourStatuses == { Some(1), Some(3), Some(6), Some(8) }

\* C25 (base filter): every row of lpi_base_full and of lpi_base_distinct
\* has a logical status among Approved, Alternative, Provisional and
\* Historical, a status_rank in 0..3, and a property whose postal flag is
\* not 'N'; the records of the four statuses of a property whose flag is
\* null are in lpi_base_full.
C25_BaseFilter ==
    ("lpi_base_distinct" \in DOMAIN tables) =>
        /\ \A f \in tables["lpi_base_full"] \cup tables["lpi_base_distinct"] :
              /\ f.logical_status \in FourStatuses
              /\ f.status_rank \in 0..3
              /\ Some("N") \notin PostalFlags(f.uprn)
        /\ \A l \in parquet.lpi :
              (l.logical_status \in FourStatuses /\ PostalFlags(l.uprn) = { Null })
                  => \E f \in tables["lpi_base_full"] : f.lpi_key = l.lpi_key

\* the case of C25: the input has a record whose status is none of the four
\* or is null, a record of a non-postal property, and a record of a property
\* of unknown applicability, and only the last one is in the relations
C25_Witness ==
    /\ "lpi_base_distinct" \in DOMAIN tables
    /\ \E l \in parquet.lpi : l.logical_status \notin FourStatuses
    /\ \E l \in parquet.lpi : PostalFlags(l.uprn) = { Some("N") }
    /\ \E d \in tables["lpi_base_distinct"] : PostalFlags(d.uprn) = { Null }
    /\ Cardinality(tables["lpi_base_full"]) = 1


----------------------------------------------------------------------------
(* The property ids of the output and the end of the run, under Spec *)

\* every delivery point names a property of blpu that has a name-location
\* record
DeliveryPointsResolve ==
    \A d \in parquet.delivery_point :
        /\ d.uprn # Null
        /\ \E b \in parquet.blpu : b.uprn = d.uprn
        /\ \E l \in parquet.lpi : l.uprn = d.uprn

\* C26 (no extra identifiers), as claimed: on inputs whose delivery points
\* all name a property of blpu with a name-location record, every property
\* id of the Combiner's output is a property id of lpi_base_distinct, and
\* the integrity check does not fail.
C26_NoExtraIdentifiers ==
    DeliveryPointsResolve =>
        /\ result =>
              \A res \in ResultEvaluations :
                  \A r \in res : \E d \in tables["lpi_base_distinct"] : d.uprn = r.uprn
        /\ ret.what # "AssertionError"


\* C27 (Approved stays primary): if a property has an Approved row in
\* lpi_base_distinct, then in the final relation the property has a primary
\* row, and each of its primary rows has source Official and the label
\* APPROVED; no Occupant, Postal or Floor-Level row of the property is
\* primary.
C27_ApprovedStaysPrimary ==
    result =>
        \A res \in ResultEvaluations :
            \A d \in tables["lpi_base_distinct"] :
                d.logical_status = Some(1) =>
                    /\ PrimariesOf(res, d.uprn) # {}
                    /\ \A r \in PrimariesOf(res, d.uprn) :
                          r.source = "LPI" /\ r.variant_label = Some("APPROVED")

\* the case of C27: a Postal row has the normalized address of the Approved
\* row of its property; the row kept for that address is the Official one
\* and it is primary, and the property has another row, not primary
C27_Witness ==
    /\ result
    /\ \E res \in ResultEvaluations :
          \E r \in res :
              /\ r.is_primary /\ r.source = "LPI" /\ r.variant_label = Some("APPROVED")
              /\ \E v \in tables["_stage_delivery_point_variants"] :
                    v.uprn = r.uprn /\ NormalizeAddress(v.raw_address) = r.address_concat
              /\ \E x \in res : x.uprn = r.uprn /\ ~x.is_primary


\* C28 (Official wins collisions), as claimed: whenever an Official row and
\* a row of another source of the same property have the same normalized
\* address, the row of the final relation with that property and address is
\* the Official one, whatever the logical statuses of the two rows.
C28_OfficialWinsCollisions ==
    result =>
        \A res \in ResultEvaluations :
            \A a \in CombinedRows, b \in CombinedRows :
                (/\ a.source = "LPI" /\ b.source # "LPI"
                 /\ a.uprn = b.uprn /\ a.address_concat = b.address_concat)
                    => \A r \in res :
                          (r.uprn = a.uprn /\ r.address_concat = a.address_concat)
                              => r.source = "LPI"


----------------------------------------------------------------------------
(* The guards of transform_to_flatfile, under SpecRun *)

\* C29 (order of the run's guards): the check for existing output is reached
\* only once the check of the inputs has found them all; an invocation
\* without force that found an output file ends with FileNotFoundError when
\* a required input is missing and with the skip (the output path returned)
\* when none is, and in both outcomes the file is as it was.
C29_GuardOrder ==
    /\ (pc = "check_output") => at_call.files = RequiredSet
    /\ (~force /\ runs > 0 /\ at_call.output.state # "absent")
       => /\ output = at_call.output
          /\ Ended =>
                IF at_call.files # RequiredSet
                THEN ret.kind = "raised" /\ ret.what = "FileNotFoundError"
                ELSE ret = Returned(OutputPath) /\ log = "Output already exists"

\* the case of C29: an invocation without force that found a complete output
\* file and a required input missing has raised the missing-input error
C29_Witness ==
    /\ Ended
    /\ ~force
    /\ at_call.output.state = "complete"
    /\ at_call.files # RequiredSet
    /\ ret.what = "FileNotFoundError"
    /\ output = at_call.output


----------------------------------------------------------------------------
(* The end of an invocation whose inputs all exist, under Spec *)

\* C30 (empty result), as claimed: an invocation with every required input
\* in place ends either at the integrity check, with AssertionError, or
\* after the write step, returning the output path with the file written;
\* when lpi_base_distinct and the output are both empty it writes an empty
\* file and does not fail while computing its statistics.
C30_EmptyResult ==
    Ended =>
        \/ ret.what = "AssertionError"
        \/ ret = Returned(OutputPath) /\ output.state = "complete"

====
